---- MODULE Spec2Model ----
(***************************************************************************)
(* Verification model of pmt_apc_modbus: the serialized protocol executor  *)
(* (services/async_modbus_handler.py), the persistence worker              *)
(* (services/async_db_handler.py) and the recorder with its sampling loop  *)
(* and watchdog (logic/apc_data_recorder.py).                              *)
(*                                                                         *)
(* The specifications of the module:                                       *)
(*   SpecExec  the AsyncModbusHandler queue, its worker and its callers;   *)
(*             SpecExecFair is the same executor with one caller and with  *)
(*             the fairness of the event loop, for liveness                *)
(*   SpecDb    the AsyncDBHandler queue, its worker, the session calls of  *)
(*             the sampling loop and the reads of the host                 *)
(*   SpecWorkers  either of the two executors                              *)
(*   SpecConnect  AsyncModbusConnection.connect(retry, delay) and close()  *)
(*   SpecDrift the deadlines and sleeps of the periodic sampling loop      *)
(*   Spec      the ApcDataRecorder with the repository's PmtApcInstrument: *)
(*             lifecycle, start attempts of the sampling loop, watchdog    *)
(*   SpecLoop  the same recorder with an instrument whose start reports    *)
(*             success, so that the loop goes on to wait for the first     *)
(*             sample, to sample periodically and to clean up              *)
(*   SpecWatch the sampling loop and the watchdog of SpecLoop without the  *)
(*             host's stop calls, with a health check that can pass        *)
(*   SpecSession  ApcRecordSession.add_sample on its own                   *)
(*   SpecClose the executor of SpecExec with a host that also calls the    *)
(*             recorder's close_connections()                              *)
(*   SpecClient  one operation coroutine: _get_client() and the client call*)
(*   SpecLife  sequences of start() and stop() on either executor, with    *)
(*             every worker task they create                               *)
(*   SpecDbFair, SpecStopFair, SpecStartFair  SpecDb, the executor with    *)
(*             one caller and Spec under the fairness of the event loop    *)
(***************************************************************************)
EXTENDS Integers, Sequences, FiniteSets, TLC

\* ------------------------------------------------------------------------
\* Bounds
\* ------------------------------------------------------------------------
\* number of protocol operations submitted in one behaviour of SpecExec
MaxJobs == 3

\* number of persistence operations submitted in one behaviour of SpecDb
MaxDbJobs == 7

\* number of start_recording() calls that spawn tasks in one behaviour
MaxRuns == 2

\* number of periodic iterations of one sampling loop after the first sample
MaxIter == 2

\* number of start_recording() calls that spawn tasks in one behaviour of
\* SpecLoop
MaxLoopRuns == 1

\* ------------------------------------------------------------------------
\* State of the protocol executor (AsyncModbusHandler)
\* ------------------------------------------------------------------------
VARIABLES
    queue,          \* self._queue: FIFO of job ids; Sentinel is the None item
    unfinished,     \* asyncio.Queue unfinished-task counter (put / task_done)
    worker_task,    \* self._worker_task: "none" | "alive"
    workerPc,       \* position of _worker: "off" | "get" | "exec" | "finished"
    cur,            \* the item the worker is executing (0 when none)
    job,            \* per job id: kind, owner task, state of its Future
    nextJob,        \* number of jobs submitted so far
    submitted,      \* job ids in the order of queue.put
    executed,       \* job ids in the order the worker started them
    inflight,       \* job ids whose coroutine is running against the client
    hPc,            \* position of the task calling start()/stop()
    connected,      \* connection.is_connected; the DB engine is usable
    handler,        \* class of the executor these variables belong to
    reconnects      \* job ids whose coroutine called connection.connect()

workerVars == <<queue, unfinished, worker_task, workerPc, cur, job, nextJob,
                submitted, executed, inflight, hPc, connected, handler,
                reconnects>>

\* ------------------------------------------------------------------------
\* State of the recorder (ApcDataRecorder), its tasks and its collaborators
\* ------------------------------------------------------------------------
VARIABLES
    state,                  \* self.state of the transitions Machine
    config_initialized,     \* the four stage flags behind is_initialized
    modbus_initialized,
    db_initialized,
    instrument_initialized,
    instrument,             \* class of the object in self.instrument
    sampling_status,        \* instrument.sampling_status (cached expectation)
    async_stop,             \* self._async_stop: "none" | "clear" | "set"
    sampling_started,       \* self._sampling_started
    sampling_task,          \* self._sampling_task: run number, 0 is None
    sStatus,                \* per run: asyncio state of its sampling task
    sPc,                    \* position of the newest _sampling_loop
    sCancel,                \* Task.cancel() requested, CancelledError pending
    sExit,                  \* what the finally block re-raises when it ends
    start_trials,           \* local start_trials of _sampling_loop
    wait_attempts,          \* local wait_attempts of _sampling_loop
    sample,                 \* local sample: NoSample or <<age of the sample>>
    iter,                   \* steady-state iterations begun in this run
    hist,                   \* per run: what the loop did to device and session
    watchdog_task,          \* self._watchdog_task: run number, 0 is None
    wPc,                    \* per run: position of its _watchdog_loop
    wCancel,                \* per run: Task.cancel() requested on the watchdog
    wAwait,                 \* per run: the sampling task manual_stop awaits
    record_session,         \* self.record_session (ApcRecordSession) or none
    samples_written,        \* AsyncDBHandler._samples_written
    db_sessions,            \* persisted SamplingSession rows, by id
    db_samples,             \* persisted samples: validity when enqueued
    link,                   \* the instrument answers on the network
    coil,                   \* device side of the sampling_control coil
    hostPc,                 \* position of the host inside a recorder API call
    call                    \* the API call in progress or last returned

fsmVars == <<state, config_initialized, modbus_initialized, db_initialized,
             instrument_initialized>>

instrVars == <<instrument, sampling_status>>

loopVars == <<sPc, sCancel, sExit, start_trials, wait_attempts, sample, iter>>

taskVars == <<sampling_task, sStatus, async_stop, sampling_started>>

wdVars == <<watchdog_task, wPc, wCancel, wAwait>>

dbVars == <<record_session, samples_written, db_sessions, db_samples>>

envVars == <<link, coil>>

hostVars == <<hostPc, call>>

recVars == <<fsmVars, instrVars, loopVars, taskVars, wdVars, dbVars, envVars,
             hostVars, hist>>

\* ------------------------------------------------------------------------
\* State of the units that are checked on their own
\* ------------------------------------------------------------------------
VARIABLES
    now,            \* time.monotonic(), in ticks
    next_time,      \* local next_time of _sampling_loop: the deadline
    interval,       \* local interval of _sampling_loop, in ticks
    dPc,            \* position inside one iteration of the periodic loop
    work,           \* ticks the current iteration spent on read and write
    overrun,        \* ticks by which the last iteration ended past its deadline
    cPc,            \* position of the caller inside connection.connect()
    retry,          \* argument retry of connect()
    delay,          \* argument delay of connect(), in ticks
    attempt,        \* loop variable attempt of connect()
    tried,          \* client.connect() calls made by this connect()
    waited,         \* ticks this connect() spent in asyncio.sleep(delay)
    last_error,     \* the exception of the last failed attempt
    returned,       \* what connect() returned or raised, and the cause of it
    notified,       \* state names passed to self.state_change_callback
    session,        \* an ApcRecordSession: live_data, accumulator, counter
    accepted,       \* the samples whose add_sample call returned True, in order
    offered,        \* the last add_sample call: its sample and its result
    client,         \* connection.client: "none" | "object"
    opPc,           \* position of one operation coroutine (_*_impl)
    oper,           \* that operation: kind, its reconnect, its I/O, outcome
    ops,            \* operation coroutines begun so far
    tasks           \* worker tasks start() created, oldest first: the
                    \* position of each ("get" | "exec" | "done")

driftVars == <<now, next_time, interval, dPc, work, overrun>>

connVars == <<cPc, retry, delay, attempt, tried, waited, last_error, returned>>

sessVars == <<session, accepted, offered>>

opVars == <<client, opPc, oper, ops>>

unitVars == <<driftVars, connVars, notified, sessVars, opVars, tasks>>

\* everything outside the recorder object
execVars == <<workerVars, unitVars>>

vars == <<execVars, recVars>>

Sentinel == 0

JobIds == 1..(IF MaxDbJobs > MaxJobs THEN MaxDbJobs ELSE MaxJobs)

JobKinds == {"read_input", "write_coil", "check_connection"}

Callers == {"sampling", "watchdog"}

NoJob == [kind |-> "none", owner |-> "none", future |-> "unused"]


\* ------------------------------------------------------------------------
\* Recorder: constants, helpers and the state after construction
\* ------------------------------------------------------------------------
Runs == 1..MaxRuns

\* "if start_trials > 4" in the start-attempt loop
MaxStartTrials == 4

States == {"uninitialized", "initialized", "recording", "stopped", "error"}

\* the transition table handed to Machine(...)
Transitions ==
    [fsm_initialize |-> [source |-> {"uninitialized"}, dest |-> "initialized"],
     fsm_start_recording |-> [source |-> {"initialized"}, dest |-> "recording"],
     fsm_stop_recording |-> [source |-> {"recording"}, dest |-> "stopped"],
     fsm_error |-> [source |-> States, dest |-> "error"],
     fsm_reset |-> [source |-> {"error"}, dest |-> "uninitialized"]]

\* a trigger of the Machine: the destination when the current state is a
\* source of the trigger; otherwise MachineError and the state stays
CanTrigger(trigger, st) == st \in Transitions[trigger].source

Trigger(trigger, st) ==
    IF CanTrigger(trigger, st) THEN Transitions[trigger].dest ELSE st

\* the local variable sample: None, or one sample with its age
NoSample == << >>

NoSession == [session_id |-> 0, live_data |-> << >>, num_of_samples |-> 0,
              session_end |-> FALSE]

NoCall == [op |-> "none", result |-> "none", before |-> "none",
           after |-> "none", running |-> FALSE, spawned |-> 0,
           stages |-> << >>]

NoHist == [started |-> FALSE, stops |-> 0, session |-> 0, closed |-> FALSE,
           refused |-> FALSE]

\* the attributes created by the constructor and by set_state_change_callback,
\* which the host calls once right after the constructor; kind is the class
\* of instrument that _initialize_instrument will put into self.instrument
RecInit(kind) ==
    /\ state = "uninitialized"
    /\ notified = << >>
    /\ config_initialized = FALSE
    /\ modbus_initialized = FALSE
    /\ db_initialized = FALSE
    /\ instrument_initialized = FALSE
    /\ instrument = kind
    /\ sampling_status = "None"
    /\ async_stop = "none"
    /\ sampling_started = FALSE
    /\ sampling_task = 0
    /\ sStatus = [r \in Runs |-> "unborn"]
    /\ sPc = "none"
    /\ sCancel = FALSE
    /\ sExit = "return"
    /\ start_trials = 0
    /\ wait_attempts = 0
    /\ sample = NoSample
    /\ iter = 0
    /\ hist = [r \in Runs |-> NoHist]
    /\ watchdog_task = 0
    /\ wPc = [r \in Runs |-> "unborn"]
    /\ wCancel = [r \in Runs |-> FALSE]
    /\ wAwait = [r \in Runs |-> 0]
    /\ record_session = NoSession
    /\ samples_written = 0
    /\ db_sessions = << >>
    /\ db_samples = << >>
    /\ link \in BOOLEAN
    /\ coil = FALSE
    /\ hostPc = "idle"
    /\ call = NoCall

\* is_initialized that looks at the configuration flag only
ConfigOnly == config_initialized

\* property is_initialized
is_initialized ==
    /\ config_initialized
    /\ modbus_initialized
    /\ db_initialized
    /\ instrument_initialized

Alive(st) == st \in {"created", "running"}

Ended(st) == st \in {"done", "failed", "cancelled"}

\* is_running(): _sampling_task is not None and not _sampling_task.done()
is_running == sampling_task # 0 /\ Alive(sStatus[sampling_task])

\* a protocol operation submitted now is answered: the handler's worker runs
\* (between initialize and close_connections) and the device is reachable
ProtocolUp == link /\ modbus_initialized

\* Task.cancel() on the sampling task of run r: a task that has not run yet
\* ends cancelled at once, a running one gets CancelledError at its await
CancelStatus(r) ==
    IF r # 0 /\ sStatus[r] = "created"
    THEN [sStatus EXCEPT ![r] = "cancelled"]
    ELSE sStatus

CancelPending(r) ==
    IF r # 0 /\ sStatus[r] = "running" THEN TRUE ELSE sCancel

\* a call returns: its result and the lifecycle state it leaves; a call
\* record keeps the state and is_running() found on entry
Return(c, res, st) == [c EXCEPT !.result = res, !.after = st]

NewCall(op) == [NoCall EXCEPT !.op = op, !.result = "pending",
                              !.before = state, !.running = is_running]

RunsSpawned == Cardinality({r \in Runs : sStatus[r] # "unborn"})

\* the value "await self.instrument.async_start_sampling()" yields after a
\* successful coil write: PmtApcInstrument.async_start_sampling has no return
\* statement, so the loop sees None; an instrument that reports the confirmed
\* write returns True
async_start_sampling(kind) == kind = "Confirming"

\* recordings explored: MaxRuns when every run ends in its start attempts,
\* MaxLoopRuns when runs go on to sample
RunLimit == IF async_start_sampling(instrument) THEN MaxLoopRuns ELSE MaxRuns

\* ------------------------------------------------------------------------
\* The protocol executor
\* ------------------------------------------------------------------------

\* PmtApcInstrument.CHANNELS, by channel_name
Channels == {"pc1", "pc2", "pc3"}

\* ApcRecordSession as __post_init__ leaves it, and no add_sample call yet
SessionInit ==
    /\ session = [live_data |-> [c \in Channels |-> << >>],
                  accumulator |-> [c \in Channels |-> 0],
                  num_of_samples |-> 0]
    /\ accepted = << >>
    /\ offered = [n |-> 0, result |-> "none"]

\* no periodic loop runs: the locals of _sampling_loop do not exist
DriftIdle ==
    /\ now = 0
    /\ next_time = 0
    /\ interval = 1
    /\ dPc = "none"
    /\ work = 0
    /\ overrun = 0

\* no operation coroutine has run
NoOp == [kind |-> "none", reconnect |-> "none", issued |-> "none",
         outcome |-> "none"]

\* AsyncModbusConnection.__init__ : no client, nobody inside connect()
ConnIdle ==
    /\ cPc = "idle"
    /\ retry = 0
    /\ delay = 0
    /\ attempt = 0
    /\ tried = 0
    /\ waited = 0
    /\ last_error = "none"
    /\ returned = [kind |-> "none", cause |-> "none"]
    /\ client = "none"
    /\ opPc = "idle"
    /\ oper = NoOp
    /\ ops = 0
    /\ tasks = << >>

\* AsyncModbusHandler.__init__ : no queue content, no worker
ExecInit ==
    /\ queue = << >>
    /\ unfinished = 0
    /\ worker_task = "none"
    /\ workerPc = "off"
    /\ cur = 0
    /\ job = [j \in JobIds |-> NoJob]
    /\ nextJob = 0
    /\ submitted = << >>
    /\ executed = << >>
    /\ inflight = {}
    /\ hPc = "idle"
    /\ connected = FALSE
    /\ handler = "AsyncModbusHandler"
    /\ reconnects = {}

\* a prefix test on sequences
IsPrefix(s, t) == Len(s) <= Len(t) /\ SubSeq(t, 1, Len(s)) = s

\* a put at the head of the queue instead of its tail
EnqueueFront(q, item) == <<item>> \o q

\* asyncio.Queue.put as _submit_job and stop() use it: append at the tail
Enqueue(q, item) == Append(q, item)

\* a timeout that gives up waiting and leaves the coroutine running
LeaveRunning(fl, j) == fl

\* asyncio.wait_for(coro_func(*args), timeout=5.0) on expiry: the coroutine
\* is cancelled and awaited, so it no longer runs when TimeoutError is raised
CancelOnTimeout(fl, j) == fl \ {j}

\* an outcome that is handed to every caller that still waits
ResolveAll(j, outcome) ==
    [i \in JobIds |->
        IF job[i].future = "pending"
        THEN [job[i] EXCEPT !.future = outcome]
        ELSE job[i]]

\* an outcome that is dropped
NoResolve(j, outcome) == job

\* Future.set_result / set_exception guarded by "if not future.done()"
Resolve(j, outcome) ==
    IF job[j].future = "pending"
    THEN [job EXCEPT ![j].future = outcome]
    ELSE job

\* start(): worker already running -> return; otherwise await connect()
HandlerStartBegin ==
    /\ hPc = "idle"
    /\ worker_task = "none"
    /\ hPc' = "connecting"
    /\ UNCHANGED <<queue, unfinished, worker_task, workerPc, cur, job, nextJob,
                   submitted, executed, inflight, connected>>
    /\ UNCHANGED <<handler, reconnects, unitVars, recVars>>

\* start() after connection.connect(): create the worker task, or the
\* ConnectionException of connect() leaves the handler without a worker
HandlerStartFinish ==
    /\ hPc = "connecting"
    /\ \E ok \in BOOLEAN :
         IF ok
         THEN /\ connected' = TRUE
              /\ worker_task' = "alive"
              /\ workerPc' = "get"
         ELSE /\ connected' = FALSE
              /\ UNCHANGED <<worker_task, workerPc>>
    /\ hPc' = "idle"
    /\ UNCHANGED <<queue, unfinished, cur, job, nextJob, submitted, executed,
                   inflight>>
    /\ UNCHANGED <<handler, reconnects, unitVars, recVars>>

\* _submit_job: RuntimeError without a worker, otherwise queue.put of
\* (coro_func, args, future); the caller then awaits the future
SubmitJob(kind, owner) ==
    /\ worker_task # "none"
    /\ nextJob < MaxJobs
    /\ LET j == nextJob + 1 IN
         /\ nextJob' = j
         /\ job' = [job EXCEPT ![j] = [kind |-> kind, owner |-> owner,
                                       future |-> "pending"]]
         /\ queue' = Enqueue(queue, j)
         /\ submitted' = Append(submitted, j)
    /\ unfinished' = unfinished + 1
    /\ UNCHANGED <<worker_task, workerPc, cur, executed, inflight, hPc,
                   connected>>
    /\ UNCHANGED <<handler, reconnects, unitVars, recVars>>

\* _get_client, the first statement of every operation: while
\* connection.is_connected it only returns the client; otherwise it awaits
\* connection.connect(), which connects or raises (logged, client returned
\* as it is)
GetClient(j) ==
    IF connected
    THEN UNCHANGED <<connected, reconnects>>
    ELSE /\ reconnects' = reconnects \cup {j}
         /\ connected' \in BOOLEAN

\* _worker: item = await queue.get(); None ends the loop, a job is started
\* under asyncio.wait_for(coro_func(*args), timeout=5.0) and begins with
\* _get_client()
WorkerGet ==
    /\ workerPc = "get"
    /\ queue # << >>
    /\ LET item == Head(queue) IN
         /\ queue' = Tail(queue)
         /\ IF item = Sentinel
            THEN /\ unfinished' = unfinished - 1
                 /\ workerPc' = "finished"
                 /\ UNCHANGED <<cur, executed, inflight, connected, reconnects>>
            ELSE /\ cur' = item
                 /\ executed' = Append(executed, item)
                 /\ inflight' = inflight \cup {item}
                 /\ workerPc' = "exec"
                 /\ GetClient(item)
                 /\ UNCHANGED unfinished
    /\ UNCHANGED <<worker_task, job, nextJob, submitted, hPc>>
    /\ UNCHANGED <<handler, unitVars, recVars>>

\* _worker: the coroutine returned or raised; the future gets the outcome,
\* finally: queue.task_done()
WorkerJobDone ==
    /\ workerPc = "exec"
    /\ \E outcome \in {"result", "exception"} :
         job' = Resolve(cur, outcome)
    /\ inflight' = inflight \ {cur}
    /\ unfinished' = unfinished - 1
    /\ cur' = 0
    /\ workerPc' = "get"
    /\ UNCHANGED <<queue, worker_task, nextJob, submitted, executed, hPc,
                   connected>>
    /\ UNCHANGED <<handler, reconnects, unitVars, recVars>>

\* a timeout branch that leaves the caller's future as it is
Unanswered(j) == job

\* except asyncio.TimeoutError: future.set_exception(asyncio.TimeoutError())
SetTimeoutError(j) == Resolve(j, "timeout")

\* _worker: asyncio.wait_for ran into timeout=5.0; wait_for cancels the
\* coroutine and waits for it to end before raising TimeoutError
WorkerJobTimeout ==
    /\ workerPc = "exec"
    /\ job' = SetTimeoutError(cur)
    /\ inflight' = CancelOnTimeout(inflight, cur)
    /\ unfinished' = unfinished - 1
    /\ cur' = 0
    /\ workerPc' = "get"
    /\ UNCHANGED <<queue, worker_task, nextJob, submitted, executed, hPc,
                   connected>>
    /\ UNCHANGED <<handler, reconnects, unitVars, recVars>>

\* stop(): no worker -> return; otherwise queue.put(None), then queue.join()
HandlerStopBegin ==
    /\ hPc = "idle"
    /\ worker_task # "none"
    /\ queue' = Enqueue(queue, Sentinel)
    /\ unfinished' = unfinished + 1
    /\ hPc' = "join"
    /\ UNCHANGED <<worker_task, workerPc, cur, job, nextJob, submitted,
                   executed, inflight, connected>>
    /\ UNCHANGED <<handler, reconnects, unitVars, recVars>>

\* stop(): queue.join() returned, await self._worker_task
HandlerStopJoined ==
    /\ hPc = "join"
    /\ unfinished = 0
    /\ hPc' = "await_worker"
    /\ UNCHANGED <<queue, unfinished, worker_task, workerPc, cur, job, nextJob,
                   submitted, executed, inflight, connected>>
    /\ UNCHANGED <<handler, reconnects, unitVars, recVars>>

\* stop(): the worker ended; _worker_task = None and connection.close()
HandlerStopFinish ==
    /\ hPc = "await_worker"
    /\ workerPc = "finished"
    /\ worker_task' = "none"
    /\ workerPc' = "off"
    /\ connected' = FALSE
    /\ hPc' = "idle"
    /\ UNCHANGED <<queue, unfinished, cur, job, nextJob, submitted, executed,
                   inflight>>
    /\ UNCHANGED <<handler, reconnects, unitVars, recVars>>

\* the peer or the network drops the TCP connection: client.connected
\* becomes False while the worker keeps running
ConnectionLost ==
    /\ worker_task # "none"
    /\ connected
    /\ connected' = FALSE
    /\ UNCHANGED <<queue, unfinished, worker_task, workerPc, cur, job, nextJob,
                   submitted, executed, inflight, hPc>>
    /\ UNCHANGED <<handler, reconnects, unitVars, recVars>>

NextExec ==
    \/ HandlerStartBegin
    \/ HandlerStartFinish
    \/ \E k \in JobKinds, o \in Callers : SubmitJob(k, o)
    \/ WorkerGet
    \/ WorkerJobDone
    \/ WorkerJobTimeout
    \/ HandlerStopBegin
    \/ HandlerStopJoined
    \/ HandlerStopFinish
    \/ ConnectionLost

InitExec == ExecInit /\ RecInit("PmtApcInstrument") /\ DriftIdle /\ ConnIdle
    /\ SessionInit

SpecExec == InitExec /\ [][NextExec]_vars

\* the executor with the sampling task as its only caller
NextOneCaller ==
    \/ HandlerStartBegin
    \/ HandlerStartFinish
    \/ \E k \in JobKinds : SubmitJob(k, "sampling")
    \/ WorkerGet
    \/ WorkerJobDone
    \/ WorkerJobTimeout
    \/ HandlerStopBegin
    \/ HandlerStopJoined
    \/ HandlerStopFinish
    \/ ConnectionLost

InitOneCaller == InitExec /\ link

\* the event loop runs the worker whenever it can take an item, and the
\* timer of wait_for fires unless the operation ends first
SpecExecFair ==
    /\ InitOneCaller
    /\ [][NextOneCaller]_vars
    /\ WF_vars(WorkerGet)
    /\ WF_vars(WorkerJobTimeout)

\* ------------------------------------------------------------------------
\* Claims on the protocol executor (checked under SpecExec)
\* ------------------------------------------------------------------------

\* C1: the worker executes the submitted operations in the order of their
\* enqueueing: the sequence of started operations is always a prefix of the
\* sequence of submitted ones (no reordering, no skipping, no repetition).
C1_FifoOrder == IsPrefix(executed, submitted)

\* C1 witness: three operations of two different tasks have been executed
C1_Witness ==
    /\ Len(executed) >= 3
    /\ \E a, b \in 1..Len(executed) :
         job[executed[a]].owner # job[executed[b]].owner

\* C2: at most one protocol operation runs against the connection at any
\* moment, whichever task issued it and also after a timeout.
C2_OneInFlight == Cardinality(inflight) <= 1

\* C2 witness: the watchdog's health probe runs right after an operation of
\* the sampling loop timed out, with a further operation still queued
C2_Witness ==
    /\ \E j \in JobIds :
         /\ inflight = {j}
         /\ job[j].kind = "check_connection"
         /\ job[j].owner = "watchdog"
    /\ \E i \in JobIds :
         /\ job[i].future = "timeout"
         /\ job[i].owner = "sampling"
    /\ queue # << >>

\* ------------------------------------------------------------------------
\* Recorder API, called by one host task, one call at a time
\* ------------------------------------------------------------------------

\* a failed stage that does not end initialize()
ContinueAnyway(ok, nextPc) == nextPc

\* initialize(): "if not self._initialize_x(): return False"
NextStage(ok, nextPc) == IF ok THEN nextPc ELSE "idle"

Stage(name, ok) == [stage |-> name, ok |-> ok]

\* initialize(), stage 1: _initialize_config() loads the configuration
\* unless the flag is already set
InitializeConfig ==
    /\ hostPc = "idle"
    /\ \E loaded \in (IF config_initialized THEN {TRUE} ELSE BOOLEAN) :
         LET c == [NewCall("initialize") EXCEPT
                       !.stages = <<Stage("config", loaded)>>]
             pc == NextStage(loaded, "init_modbus")
         IN /\ config_initialized' = loaded
            /\ hostPc' = pc
            /\ call' = IF pc = "idle" THEN Return(c, "False", state) ELSE c
    /\ UNCHANGED <<state, modbus_initialized, db_initialized,
                   instrument_initialized, instrVars, loopVars, taskVars,
                   wdVars, dbVars, envVars, hist, execVars>>

\* initialize(), stage 2: _initialize_modbus() connects, starts the handler
\* and runs check_connection(); it succeeds when the device is reachable
InitializeModbus ==
    /\ hostPc = "init_modbus"
    /\ LET ok == modbus_initialized \/ link
           c == [call EXCEPT !.stages = Append(@, Stage("modbus", ok))]
           pc == NextStage(ok, "init_db")
       IN /\ modbus_initialized' = ok
          /\ hostPc' = pc
          /\ call' = IF pc = "idle" THEN Return(c, "False", state) ELSE c
    /\ UNCHANGED <<state, config_initialized, db_initialized,
                   instrument_initialized, instrVars, loopVars, taskVars,
                   wdVars, dbVars, envVars, hist, execVars>>

\* initialize(), stages 3 and 4: _initialize_db() constructs a new
\* AsyncDBHandler (its _samples_written is 0) unless db_initialized and
\* starts its worker, _initialize_instrument() wraps the handler, then
\* fsm_initialize()
InitializeDb ==
    /\ hostPc = "init_db"
    /\ \E started \in (IF db_initialized THEN {TRUE} ELSE BOOLEAN) :
         LET c == [call EXCEPT !.stages = Append(@, Stage("db", started))]
             pc == NextStage(started, "init_fsm")
         IN /\ db_initialized' = started
            /\ IF pc = "idle"
               THEN /\ call' = Return(c, "False", state)
                    /\ UNCHANGED <<state, instrument_initialized>>
               ELSE /\ instrument_initialized' = TRUE
                    /\ state' = Trigger("fsm_initialize", state)
                    /\ call' = Return(
                         [c EXCEPT !.stages = Append(@, Stage("instrument", TRUE))],
                         IF CanTrigger("fsm_initialize", state)
                         THEN "True" ELSE "MachineError",
                         state')
    /\ samples_written' = (IF db_initialized THEN samples_written ELSE 0)
    /\ hostPc' = "idle"
    /\ UNCHANGED <<config_initialized, modbus_initialized, instrVars, loopVars,
                   taskVars, wdVars, record_session, db_sessions, db_samples,
                   envVars, hist, execVars>>

\* start_recording(): raises unless is_initialized and not is_running();
\* otherwise creates both tasks and then fires fsm_start_recording()
StartRecording ==
    /\ hostPc = "idle"
    /\ LET c == NewCall("start_recording") IN
       IF ~is_initialized \/ is_running
       THEN /\ call' = Return(c, "ApcDataRecorderException", state)
            /\ UNCHANGED <<state, loopVars, taskVars, wdVars, hist>>
       ELSE /\ RunsSpawned < RunLimit
            /\ LET r == RunsSpawned + 1 IN
                 /\ async_stop' = "clear"
                 /\ sampling_task' = r
                 /\ sStatus' = [sStatus EXCEPT ![r] = "created"]
                 /\ watchdog_task' = r
                 /\ wPc' = [wPc EXCEPT ![r] = "created"]
                 /\ sPc' = "none"
                 /\ sCancel' = FALSE
                 /\ sExit' = "return"
                 /\ start_trials' = 0
                 /\ wait_attempts' = 0
                 /\ sample' = NoSample
                 /\ iter' = 0
            /\ state' = Trigger("fsm_start_recording", state)
            /\ call' = Return([c EXCEPT !.spawned = 2],
                              IF CanTrigger("fsm_start_recording", state)
                              THEN "True" ELSE "MachineError",
                              state')
            /\ UNCHANGED <<sampling_started, wCancel, wAwait, hist>>
    /\ hostPc' = "idle"
    /\ UNCHANGED <<config_initialized, modbus_initialized, db_initialized,
                   instrument_initialized, instrVars, dbVars, envVars,
                   execVars>>

\* stop_recording(): returns True when nothing runs; otherwise sets the stop
\* signals and awaits the sampling task under wait_for(timeout)
StopRecordingBegin ==
    /\ hostPc = "idle"
    /\ LET c == NewCall("stop_recording") IN
       IF ~is_running
       THEN /\ call' = Return(c, "True", state)
            /\ hostPc' = "idle"
            /\ UNCHANGED async_stop
       ELSE /\ call' = c
            /\ hostPc' = "stop_wait"
            /\ async_stop' = IF async_stop = "none" THEN "none" ELSE "set"
    /\ UNCHANGED <<fsmVars, instrVars, loopVars, sampling_task, sStatus,
                   sampling_started, wdVars, dbVars, envVars, hist, execVars>>

\* stop_recording(): the timeout of wait_for expires first; wait_for cancels
\* the sampling task and waits until the task has ended
StopRecordingTimeout ==
    /\ hostPc = "stop_wait"
    /\ Alive(sStatus[sampling_task])
    /\ sStatus' = CancelStatus(sampling_task)
    /\ sCancel' = CancelPending(sampling_task)
    /\ hostPc' = "stop_cancelling"
    /\ UNCHANGED <<fsmVars, instrVars, sPc, sExit, start_trials, wait_attempts,
                   sample, iter, sampling_task, async_stop, sampling_started,
                   wdVars, dbVars, envVars, call, hist, execVars>>

\* stop_recording(): the awaited sampling task has ended.  A task that
\* returned lets the call go on; the exception of a failed task and the
\* CancelledError of a cancelled one ("except Exception: pass" does not catch
\* it) leave stop_recording() through its caller.  Going on, the watchdog is
\* cancelled and the call yields once with asyncio.sleep(0)
StopRecordingAwaited ==
    /\ hostPc \in {"stop_wait", "stop_cancelling"}
    /\ Ended(sStatus[sampling_task])
    /\ IF sStatus[sampling_task] = "done"
       THEN /\ hostPc' = "stop_yield"
            /\ wCancel' = IF watchdog_task # 0 /\ wPc[watchdog_task]
                                 \notin {"unborn", "created", "done"}
                          THEN [wCancel EXCEPT ![watchdog_task] = TRUE]
                          ELSE wCancel
            /\ wPc' = IF watchdog_task # 0 /\ wPc[watchdog_task] = "created"
                      THEN [wPc EXCEPT ![watchdog_task] = "done"]
                      ELSE wPc
            /\ UNCHANGED call
       ELSE /\ hostPc' = "idle"
            /\ call' = Return(call,
                              IF sStatus[sampling_task] = "cancelled"
                              THEN "CancelledError" ELSE "Exception",
                              state)
            /\ UNCHANGED <<wCancel, wPc>>
    /\ UNCHANGED <<fsmVars, instrVars, loopVars, taskVars, watchdog_task,
                   wAwait, dbVars, envVars, hist, execVars>>

\* stop_recording(): after the yield, fsm_stop_recording() and return True;
\* the cancelled watchdog has run its handlers before the call resumes
StopRecordingFinish ==
    /\ hostPc = "stop_yield"
    /\ \A r \in Runs : ~wCancel[r]
    /\ state' = Trigger("fsm_stop_recording", state)
    /\ call' = Return(call,
                      IF CanTrigger("fsm_stop_recording", state)
                      THEN "True" ELSE "MachineError",
                      state')
    /\ hostPc' = "idle"
    /\ UNCHANGED <<config_initialized, modbus_initialized, db_initialized,
                   instrument_initialized, instrVars, loopVars, taskVars,
                   wdVars, dbVars, envVars, hist, execVars>>

\* manual_stop_sampling() called by the host: sets the stop signal, cancels
\* the sampling task and awaits it; without a stop event it only logs
ManualStopBegin ==
    /\ hostPc = "idle"
    /\ LET c == NewCall("manual_stop_sampling") IN
       IF async_stop = "none"
       THEN /\ call' = Return(c, "None", state)
            /\ hostPc' = "idle"
            /\ UNCHANGED <<async_stop, sStatus, sCancel>>
       ELSE /\ async_stop' = "set"
            /\ sStatus' = CancelStatus(sampling_task)
            /\ sCancel' = CancelPending(sampling_task)
            /\ call' = c
            /\ hostPc' = "manual_wait"
    /\ UNCHANGED <<fsmVars, instrVars, sPc, sExit, start_trials, wait_attempts,
                   sample, iter, sampling_task, sampling_started, wdVars,
                   dbVars, envVars, hist, execVars>>

\* manual_stop_sampling() of the host: "await self._sampling_task" ended
ManualStopAwaited ==
    /\ hostPc = "manual_wait"
    /\ Ended(sStatus[sampling_task])
    /\ call' = Return(call,
                      CASE sStatus[sampling_task] = "done" -> "None"
                        [] sStatus[sampling_task] = "cancelled" -> "CancelledError"
                        [] OTHER -> "Exception",
                      state)
    /\ hostPc' = "idle"
    /\ UNCHANGED <<fsmVars, instrVars, loopVars, taskVars, wdVars, dbVars,
                   envVars, hist, execVars>>

\* close_connections(): closes the connection, stops both workers and
\* clears the modbus, db and instrument flags
CloseConnections ==
    /\ hostPc = "idle"
    /\ modbus_initialized' = FALSE
    /\ db_initialized' = FALSE
    /\ instrument_initialized' = FALSE
    /\ call' = Return(NewCall("close_connections"), "True", state)
    /\ UNCHANGED <<state, config_initialized, instrVars, loopVars, taskVars,
                   wdVars, dbVars, envVars, hostPc, hist, execVars>>

\* ------------------------------------------------------------------------
\* The sampling task (_sampling_loop), start attempts
\* ------------------------------------------------------------------------

Min(a, b) == IF a < b THEN a ELSE b

\* first step of the task: returns False when the recorder is not
\* initialized, otherwise replaces the stop event and starts the device
SamplingBegin ==
    /\ sampling_task # 0
    /\ sStatus[sampling_task] = "created"
    /\ IF ~is_initialized
       THEN /\ sStatus' = [sStatus EXCEPT ![sampling_task] = "done"]
            /\ UNCHANGED <<async_stop, sampling_started, sPc>>
       ELSE /\ sStatus' = [sStatus EXCEPT ![sampling_task] = "running"]
            /\ async_stop' = "clear"
            /\ sampling_started' = FALSE
            /\ sPc' = "start_attempt"
    /\ UNCHANGED <<fsmVars, instrVars, sCancel, sExit, start_trials,
                   wait_attempts, sample, iter, sampling_task, wdVars, dbVars,
                   envVars, hostVars, hist, execVars>>

Running == sampling_task # 0 /\ sStatus[sampling_task] = "running"

\* the task takes its next step from position pc without a pending cancel
At(pc) == Running /\ sPc = pc /\ ~sCancel

\* a start attempt that does not set start_success: the coil write raised
\* (retry after 0.2 s, start_trials grows without a check), or it returned
\* a falsy value (retry after 1 s, give up once start_trials > 4: set the
\* stop event and return False)
SamplingStartFailed ==
    /\ At("start_attempt")
    /\ ~(ProtocolUp /\ async_start_sampling(instrument))
    /\ IF ProtocolUp
       THEN /\ coil' = TRUE
            /\ hist' = [hist EXCEPT ![sampling_task].started = TRUE]
            /\ IF start_trials > MaxStartTrials
               THEN /\ async_stop' = "set"
                    /\ sStatus' = [sStatus EXCEPT ![sampling_task] = "done"]
                    /\ UNCHANGED <<sPc, start_trials>>
               ELSE /\ start_trials' = start_trials + 1
                    /\ sPc' = "start_sleep"
                    /\ UNCHANGED <<async_stop, sStatus>>
       ELSE /\ start_trials' = Min(start_trials + 1, MaxStartTrials + 1)
            /\ sPc' = "start_sleep"
            /\ UNCHANGED <<coil, hist, async_stop, sStatus>>
    /\ UNCHANGED <<fsmVars, instrVars, sCancel, sExit, wait_attempts, sample,
                   iter, sampling_task, sampling_started, wdVars, dbVars, link,
                   hostVars, execVars>>

\* asyncio.sleep between two start attempts is over
SamplingStartSleep ==
    /\ At("start_sleep")
    /\ sPc' = "start_attempt"
    /\ UNCHANGED <<fsmVars, instrVars, sCancel, sExit, start_trials,
                   wait_attempts, sample, iter, taskVars, wdVars, dbVars,
                   envVars, hostVars, hist, execVars>>

\* awaits whose only handlers are "except Exception": those of the first
\* try block, of the abort cleanup and of the finally block.  A
\* CancelledError raised there leaves the coroutine at once
EscapePcs == {"start_attempt", "start_sleep", "end_prev", "create_session",
              "read_flow", "abort_stop", "abort_end", "fin_stop", "fin_end"}

\* CancelledError delivered at one of these awaits: the task ends cancelled
\* and the rest of the coroutine, cleanup included, is skipped
SamplingCancelled ==
    /\ Running
    /\ sCancel
    /\ sPc \in EscapePcs
    /\ sStatus' = [sStatus EXCEPT ![sampling_task] = "cancelled"]
    /\ sCancel' = FALSE
    /\ UNCHANGED <<fsmVars, instrVars, sPc, sExit, start_trials, wait_attempts,
                   sample, iter, sampling_task, async_stop, sampling_started,
                   wdVars, dbVars, envVars, hostVars, hist, execVars>>

\* ------------------------------------------------------------------------
\* The watchdog task (_watchdog_loop)
\* ------------------------------------------------------------------------

\* first step: returns when the recorder is not initialized, otherwise
\* sleeps the initial delay
WatchdogBegin(w) ==
    /\ wPc[w] = "created"
    /\ wPc' = [wPc EXCEPT ![w] = IF is_initialized THEN "initial_sleep"
                                  ELSE "done"]
    /\ UNCHANGED <<fsmVars, instrVars, loopVars, taskVars, watchdog_task,
                   wCancel, wAwait, dbVars, envVars, hostVars, hist, execVars>>

\* top of the loop after a sleep: idles while there is no live sampling
\* task, otherwise awaits health_check()
WatchdogTop(w) ==
    /\ wPc[w] \in {"initial_sleep", "idle_sleep", "sleep"}
    /\ ~wCancel[w]
    /\ wPc' = [wPc EXCEPT ![w] =
                 IF sampling_task = 0 \/ Ended(sStatus[sampling_task])
                 THEN "idle_sleep" ELSE "health"]
    /\ UNCHANGED <<fsmVars, instrVars, loopVars, taskVars, watchdog_task,
                   wCancel, wAwait, dbVars, envVars, hostVars, hist, execVars>>

\* manual_stop_sampling() as the watchdog calls it: set the stop event,
\* cancel the current sampling task and await it
WatchdogStop(w, pc) ==
    /\ async_stop' = "set"
    /\ sStatus' = CancelStatus(sampling_task)
    /\ sCancel' = CancelPending(sampling_task)
    /\ wAwait' = [wAwait EXCEPT ![w] = sampling_task]
    /\ wPc' = [wPc EXCEPT ![w] = pc]

\* what async_read_sampling_status() can return for the device
StatusReadings == IF coil THEN {"SAMPLING", "SELF_CHECK"} ELSE {"NOT_SAMPLING"}

\* what async_read_device_status() can return
DeviceStatuses == {"NORMAL", "ABNORMAL"}

\* "ok = await self.db_handler.check_connection()": AsyncDBHandler defines no
\* check_connection, the AttributeError is caught by "except Exception:
\* return False"
db_check_connection == FALSE

\* health_check() for a device that reports this device status and this
\* sampling status, against the cached sampling status and the answer of the
\* DB check; a protocol operation that fails raises or returns a falsy
\* value, and both make the result False
health_check(status, reading, cached, db_ok) ==
    /\ is_initialized
    /\ ProtocolUp
    /\ status = "NORMAL"
    /\ reading = cached
    /\ db_ok

\* health_check() returned False, as it does whenever it is awaited: the
\* cached sampling status is None, which no reading equals, and the DB check
\* raises.  The watchdog then calls manual_stop_sampling()
WatchdogHealthFailed(w) ==
    /\ wPc[w] = "health"
    /\ ~wCancel[w]
    /\ \E status \in DeviceStatuses, reading \in StatusReadings :
         ~health_check(status, reading, sampling_status, db_check_connection)
    /\ WatchdogStop(w, "stopping")
    /\ UNCHANGED <<fsmVars, instrVars, sPc, sExit, start_trials, wait_attempts,
                   sample, iter, sampling_task, sampling_started,
                   watchdog_task, wCancel, dbVars, envVars, hostVars, hist,
                   execVars>>

\* the sampling task awaited inside manual_stop_sampling() has ended: a
\* returned task lets the watchdog break out of its loop, a cancelled one
\* ends it through "except asyncio.CancelledError", the exception of a failed
\* one is logged and the iteration goes on to its sleep (a failed task has
\* run its finally block, so _sampling_started is False and the status read
\* is skipped)
WatchdogStopped(w) ==
    /\ wPc[w] = "stopping"
    /\ ~wCancel[w]
    /\ wAwait[w] # 0
    /\ Ended(sStatus[wAwait[w]])
    /\ wPc' = [wPc EXCEPT ![w] =
                 IF sStatus[wAwait[w]] \in {"done", "cancelled"} THEN "done"
                 ELSE "sleep"]
    /\ UNCHANGED <<fsmVars, instrVars, loopVars, taskVars, watchdog_task,
                   wCancel, wAwait, dbVars, envVars, hostVars, hist, execVars>>

\* CancelledError delivered to the watchdog at its await: the task ends
WatchdogCancelled(w) ==
    /\ wCancel[w]
    /\ wPc' = [wPc EXCEPT ![w] = "done"]
    /\ wCancel' = [wCancel EXCEPT ![w] = FALSE]
    /\ UNCHANGED <<fsmVars, instrVars, loopVars, taskVars, watchdog_task,
                   wAwait, dbVars, envVars, hostVars, hist, execVars>>

\* ------------------------------------------------------------------------
\* Environment
\* ------------------------------------------------------------------------

\* connectivity to the device is lost
LinkDown ==
    /\ link
    /\ link' = FALSE
    /\ UNCHANGED <<fsmVars, instrVars, loopVars, taskVars, wdVars, dbVars,
                   coil, hostVars, hist, execVars>>

\* connectivity to the device is back
LinkUp ==
    /\ ~link
    /\ link' = TRUE
    /\ UNCHANGED <<fsmVars, instrVars, loopVars, taskVars, wdVars, dbVars,
                   coil, hostVars, hist, execVars>>

\* ------------------------------------------------------------------------
\* The recorder with the repository's PmtApcInstrument
\* ------------------------------------------------------------------------
Init == ExecInit /\ RecInit("PmtApcInstrument") /\ DriftIdle /\ ConnIdle
    /\ SessionInit

Next ==
    \/ InitializeConfig
    \/ InitializeModbus
    \/ InitializeDb
    \/ StartRecording
    \/ StopRecordingBegin
    \/ StopRecordingTimeout
    \/ StopRecordingAwaited
    \/ StopRecordingFinish
    \/ ManualStopBegin
    \/ ManualStopAwaited
    \/ CloseConnections
    \/ SamplingBegin
    \/ SamplingStartFailed
    \/ SamplingStartSleep
    \/ SamplingCancelled
    \/ \E w \in Runs : WatchdogBegin(w)
    \/ \E w \in Runs : WatchdogTop(w)
    \/ \E w \in Runs : WatchdogHealthFailed(w)
    \/ \E w \in Runs : WatchdogStopped(w)
    \/ \E w \in Runs : WatchdogCancelled(w)
    \/ LinkDown
    \/ LinkUp

Spec == Init /\ [][Next]_vars

\* ------------------------------------------------------------------------
\* Claims on the lifecycle (checked under Spec)
\* ------------------------------------------------------------------------

\* the trigger each API call is an attempt to fire
ApiTrigger ==
    [initialize |-> "fsm_initialize",
     start_recording |-> "fsm_start_recording",
     stop_recording |-> "fsm_stop_recording"]

\* the ways a call tells its caller that it failed: a False return value or
\* an exception
Failures == {"False", "MachineError", "ApcDataRecorderException",
             "CancelledError", "Exception"}

Returned == call.result \notin {"none", "pending"}

IsEdge(from, to) ==
    \E t \in DOMAIN Transitions :
        from \in Transitions[t].source /\ to = Transitions[t].dest

\* C3: the lifecycle state changes only along the five edges of the table,
\* and an API call that attempts a transition the table does not have from
\* the current state leaves the state unchanged and reports an error.
C3_ClosedAndReported ==
    /\ [][state' # state => IsEdge(state, state')]_vars
    /\ [](( /\ Returned
            /\ call.op \in DOMAIN ApiTrigger
            /\ ~CanTrigger(ApiTrigger[call.op], call.before) )
          => (call.after = call.before /\ call.result \in Failures))

\* C4: start_recording() called in a state other than initialized spawns no
\* task, leaves the state unchanged and reports failure; called in
\* initialized it spawns both tasks and moves to recording.
C4_StartOnlyFromInitialized ==
    (Returned /\ call.op = "start_recording") =>
        IF call.before = "initialized"
        THEN call.spawned = 2 => call.after = "recording"
        ELSE /\ call.spawned = 0
             /\ call.after = call.before
             /\ call.result \in Failures

\* C5: start_recording() attempted in uninitialized leaves the state
\* uninitialized, creates neither task and raises to the caller.
C5_StartInUninitialized ==
    (Returned /\ call.op = "start_recording"
              /\ call.before = "uninitialized") =>
        /\ call.after = "uninitialized"
        /\ state = "uninitialized"
        /\ call.spawned = 0
        /\ sampling_task = 0
        /\ watchdog_task = 0
        /\ call.result = "ApcDataRecorderException"

\* C5 witness: the rejected start comes after an initialize() that got past
\* the configuration stage and failed on the unreachable device
C5_Witness ==
    /\ Returned
    /\ call.op = "start_recording"
    /\ call.before = "uninitialized"
    /\ call.result = "ApcDataRecorderException"
    /\ config_initialized
    /\ ~modbus_initialized

StageOrder == <<"config", "modbus", "db", "instrument">>

LoopEnded == sampling_task # 0 /\ Ended(sStatus[sampling_task])

WatchdogEnded == watchdog_task # 0 /\ wPc[watchdog_task] = "done"

\* C7: stop_recording() called while a recording is active returns True
\* with the lifecycle in stopped, the sampling task ended and the watchdog
\* task ended, whether the loop returned in time or had to be cancelled.
C7_StopSucceeds ==
    ( /\ Returned
      /\ call.op = "stop_recording"
      /\ call.running
      /\ call.before = "recording" )
    => ( /\ call.result = "True"
         /\ call.after = "stopped"
         /\ LoopEnded
         /\ WatchdogEnded )

\* C8: once connectivity is lost during a recording and the sampling task
\* and the watchdog have both ended, the lifecycle is no longer recording.
C8_LeavesRecording ==
    ( /\ ~link
      /\ LoopEnded
      /\ WatchdogEnded
      /\ hostPc = "idle" )
    => state # "recording"

\* ------------------------------------------------------------------------
\* The sampling task after a successful start: session, first sample,
\* periodic sampling, cleanup
\* ------------------------------------------------------------------------

\* "max_wait_attempts = 100", scaled
MaxWaitAttempts == 1

\* the 24 hours of is_valid, as one unit of age
Day == 1

\* deque(maxlen=config.live_window_len)
LiveWindow == 2

\* add_sample calls made on one ApcRecordSession
MaxCalls == 4

\* largest count one channel reports in one sample
MaxValue == 1

\* now minus the instrument timestamp of a sample, in the unit of Day
Ages == (0 - Day)..Day

Abs(n) == IF n < 0 THEN 0 - n ELSE n

\* BaseSample.is_valid for a sample of this age
is_valid(age) == Abs(age) < Day

AgeOf(smpl) == smpl[1]

\* a persistence operation submitted now: the worker answers only between
\* db_handler.start() and stop(), and the statement itself may fail
DbOutcomes == IF db_initialized THEN BOOLEAN ELSE {FALSE}

\* a full buffer that refuses the new value instead of dropping its oldest
KeepOldest(q) == IF Len(q) > LiveWindow THEN SubSeq(q, 1, LiveWindow) ELSE q

Ring(q) == IF Len(q) > LiveWindow THEN Tail(q) ELSE q

\* add_sample without the validity check
SessionAddUnchecked(rs, age) ==
    [rs EXCEPT !.live_data = Ring(Append(@, is_valid(age))),
               !.num_of_samples = @ + 1]

\* ApcRecordSession.add_sample: an invalid sample is refused; a valid one
\* goes into the ring buffers and accumulators and is counted.  The buffer
\* keeps, per sample, whether it was valid when it was added
SessionAddSample(rs, age) ==
    IF ~is_valid(age) THEN rs
    ELSE [rs EXCEPT !.live_data = Ring(Append(@, is_valid(age))),
                    !.num_of_samples = @ + 1]

\* AsyncDBHandler.add_sample up to its await: an invalid sample returns
\* False, a valid one is put into the worker's queue
DbAddSample(q, age, sid) ==
    IF ~is_valid(age) THEN q
    ELSE Append(q, [session_id |-> sid, fresh |-> is_valid(age),
                    written |-> FALSE])

NewDbSession == [start |-> FALSE, end |-> FALSE, number_of_samples |-> 0 - 1]

\* _end_sampling_session_impl: end time and number_of_samples of the row
EndDbSession(sid) ==
    [db_sessions EXCEPT ![sid].end = TRUE,
                        ![sid].number_of_samples = samples_written]

\* the coroutine returns or raises: the task is done
Finish(how) == sStatus' = [sStatus EXCEPT ![sampling_task] = how]

\* what no step of the sampling task changes once the device is started
LoopFrame ==
    UNCHANGED <<fsmVars, instrVars, wdVars, hostVars, link, execVars,
                sampling_task, async_stop, start_trials>>

\* lines 478-505, reached when the wait loop is left: without a sample that
\* is valid now the loop aborts through its own cleanup; otherwise the first
\* sample is added to the record session and handed to the DB handler.  An
\* exception of either call goes through the finally block
BeginSampling(rs) ==
    IF sample = NoSample \/ ~is_valid(AgeOf(sample))
    THEN /\ sPc' = "abort_stop"
         /\ record_session' = rs
         /\ UNCHANGED <<sExit, db_samples>>
    ELSE \/ /\ record_session' = rs
            /\ sExit' = "raise"
            /\ sPc' = "fin_stop"
            /\ UNCHANGED db_samples
         \/ /\ record_session' = SessionAddSample(rs, AgeOf(sample))
            /\ IF db_initialized
               THEN /\ db_samples' = DbAddSample(db_samples, AgeOf(sample),
                                                 rs.session_id)
                    /\ sPc' = "first_db_add"
                    /\ UNCHANGED sExit
               ELSE /\ sExit' = "raise"
                    /\ sPc' = "fin_stop"
                    /\ UNCHANGED db_samples

\* "while not self._async_stop.is_set()" of the wait loop, then the first
\* statements of its body
WaitHead(rs) ==
    IF async_stop = "set"
    THEN /\ BeginSampling(rs)
         /\ UNCHANGED wait_attempts
    ELSE /\ wait_attempts' = wait_attempts + 1
         /\ sPc' = "wait_status"
         /\ record_session' = rs
         /\ UNCHANGED <<sExit, db_samples>>

\* "if wait_attempts > max_wait_attempts: return False", else the sleep
WaitTimeoutCheck ==
    IF wait_attempts > MaxWaitAttempts
    THEN Finish("done") /\ UNCHANGED sPc
    ELSE sPc' = "wait_sleep" /\ UNCHANGED sStatus

\* a periodic loop that goes on whatever the stop event says
LoopHeadUnchecked ==
    /\ iter < MaxIter
    /\ sPc' = "read"
    /\ iter' = iter + 1

\* "while not self._async_stop.is_set()" of the periodic loop
LoopHead ==
    \/ /\ async_stop = "set"
       /\ sPc' = "fin_stop"
       /\ UNCHANGED iter
    \/ /\ async_stop # "set"
       /\ iter < MaxIter
       /\ sPc' = "read"
       /\ iter' = iter + 1

\* the start attempt succeeds: the coil is written and the call is truthy;
\* start_trials is not read again and is forgotten
SamplingStartSucceeded ==
    /\ At("start_attempt")
    /\ ProtocolUp
    /\ async_start_sampling(instrument)
    /\ coil' = TRUE
    /\ hist' = [hist EXCEPT ![sampling_task].started = TRUE]
    /\ sPc' = "end_prev"
    /\ start_trials' = 0
    /\ UNCHANGED <<sStatus, sCancel, sExit, wait_attempts, sample, iter,
                   sampling_started, dbVars>>
    /\ UNCHANGED <<fsmVars, instrVars, wdVars, hostVars, link, execVars,
                   sampling_task, async_stop>>

\* end_sampling_session() without an id: the handler's own session id is
\* never set, the call fails and the failure is ignored
SamplingEndPrevious ==
    /\ At("end_prev")
    /\ sPc' = "create_session"
    /\ UNCHANGED <<sStatus, sCancel, sExit, wait_attempts, sample, iter,
                   sampling_started, dbVars, coil, hist>>
    /\ LoopFrame

\* create_sampling_session(): a new row, or an exception and return False
SamplingCreateSession ==
    /\ At("create_session")
    /\ \E ok \in DbOutcomes :
         IF ok
         THEN /\ db_sessions' = Append(db_sessions, NewDbSession)
              /\ hist' = [hist EXCEPT ![sampling_task].session =
                                          Len(db_sessions) + 1]
              /\ sPc' = "read_flow"
              /\ UNCHANGED sStatus
         ELSE /\ Finish("done")
              /\ UNCHANGED <<db_sessions, hist, sPc>>
    /\ UNCHANGED <<sCancel, sExit, wait_attempts, sample, iter,
                   sampling_started, record_session, samples_written,
                   db_samples, coil>>
    /\ LoopFrame

\* async_read_flow(), the new ApcRecordSession, then the wait loop begins
SamplingReadFlow ==
    /\ At("read_flow")
    /\ IF ProtocolUp
       THEN /\ WaitHead([NoSession EXCEPT
                           !.session_id = hist[sampling_task].session])
            /\ UNCHANGED sStatus
       ELSE /\ Finish("done")
            /\ UNCHANGED <<sPc, sExit, wait_attempts, record_session,
                           db_samples>>
    /\ UNCHANGED <<sCancel, sample, iter, sampling_started, samples_written,
                   db_sessions, coil, hist>>
    /\ LoopFrame

\* wait loop: async_read_sampling_status()
SamplingWaitStatus ==
    /\ At("wait_status")
    /\ IF ProtocolUp
       THEN \E status \in StatusReadings :
              IF status = "SAMPLING"
              THEN sPc' = "wait_channels" /\ UNCHANGED sStatus
              ELSE WaitTimeoutCheck
       ELSE Finish("done") /\ UNCHANGED sPc
    /\ UNCHANGED <<sCancel, sExit, wait_attempts, sample, iter,
                   sampling_started, dbVars, coil, hist>>
    /\ LoopFrame

\* wait loop: async_read_channels() and the validity of the sample read
SamplingWaitChannels ==
    /\ At("wait_channels")
    /\ IF ProtocolUp
       THEN \E age \in Ages :
              /\ sample' = <<age>>
              /\ IF is_valid(age)
                 THEN sPc' = "wait_start_session" /\ UNCHANGED sStatus
                 ELSE WaitTimeoutCheck
       ELSE Finish("done") /\ UNCHANGED <<sPc, sample>>
    /\ UNCHANGED <<sCancel, sExit, wait_attempts, iter, sampling_started,
                   dbVars, coil, hist>>
    /\ LoopFrame

\* wait loop: start_sampling_session() of the row; on success the loop is
\* left by "break" and the first sample is taken over
SamplingWaitStartSession ==
    /\ At("wait_start_session")
    /\ \E ok \in DbOutcomes :
         IF ok
         THEN /\ db_sessions' = [db_sessions EXCEPT
                                   ![record_session.session_id].start = TRUE]
              /\ sampling_started' = TRUE
              /\ BeginSampling(record_session)
              /\ UNCHANGED sStatus
         ELSE /\ Finish("done")
              /\ UNCHANGED <<db_sessions, sampling_started, sPc, sExit,
                             record_session, db_samples>>
    /\ UNCHANGED <<sCancel, wait_attempts, sample, iter, samples_written,
                   coil, hist>>
    /\ LoopFrame

\* wait loop: the sleep until the next attempt is over
SamplingWaitSleep ==
    /\ At("wait_sleep")
    /\ WaitHead(record_session)
    /\ UNCHANGED <<sStatus, sCancel, sample, iter, sampling_started,
                   samples_written, db_sessions, coil, hist>>
    /\ LoopFrame

WaitPcs == {"wait_status", "wait_channels", "wait_start_session",
            "wait_sleep"}

\* CancelledError inside the wait loop: "except asyncio.CancelledError:
\* return False"
SamplingCancelledWaiting ==
    /\ Running
    /\ sCancel
    /\ sPc \in WaitPcs
    /\ Finish("done")
    /\ sCancel' = FALSE
    /\ UNCHANGED <<sPc, sExit, wait_attempts, sample, iter, sampling_started,
                   dbVars, coil, hist>>
    /\ LoopFrame

\* abort cleanup: async_stop_sampling(); its exception skips the rest
SamplingAbortStop ==
    /\ At("abort_stop")
    /\ hist' = [hist EXCEPT ![sampling_task].stops = @ + 1]
    /\ IF ProtocolUp
       THEN coil' = FALSE /\ sPc' = "abort_end" /\ UNCHANGED sStatus
       ELSE Finish("done") /\ UNCHANGED <<coil, sPc>>
    /\ UNCHANGED <<sCancel, sExit, wait_attempts, sample, iter,
                   sampling_started, dbVars>>
    /\ LoopFrame

\* abort cleanup: end_sampling_session(session_id), then return False
SamplingAbortEnd ==
    /\ At("abort_end")
    /\ \E ok \in DbOutcomes :
         IF ok
         THEN /\ db_sessions' = EndDbSession(record_session.session_id)
              /\ hist' = [hist EXCEPT ![sampling_task].closed = TRUE]
         ELSE UNCHANGED <<db_sessions, hist>>
    /\ Finish("done")
    /\ UNCHANGED <<sPc, sCancel, sExit, wait_attempts, sample, iter,
                   sampling_started, record_session, samples_written,
                   db_samples, coil>>
    /\ LoopFrame

\* the queued write of the last add_sample call is answered
DbWritten(ok) ==
    IF ok
    THEN /\ db_samples' = [db_samples EXCEPT ![Len(db_samples)].written = TRUE]
         /\ samples_written' = samples_written + 1
    ELSE UNCHANGED <<db_samples, samples_written>>

\* the write of the first sample is answered; its exception ends the loop
\* through the finally block
SamplingFirstDbAdd ==
    /\ At("first_db_add")
    /\ \E ok \in BOOLEAN :
         /\ DbWritten(ok)
         /\ IF ok
            THEN LoopHead /\ UNCHANGED sExit
            ELSE sExit' = "raise" /\ sPc' = "fin_stop" /\ UNCHANGED iter
    /\ UNCHANGED <<sStatus, sCancel, wait_attempts, sample, sampling_started,
                   record_session, db_sessions, coil, hist>>
    /\ LoopFrame

\* periodic loop: async_read_channels(), record_session.add_sample (its
\* exception is ignored), db_handler.add_sample up to its await
SamplingRead ==
    /\ At("read")
    /\ IF ~ProtocolUp
       THEN /\ sPc' = "backoff"
            /\ UNCHANGED <<sample, record_session, db_samples, hist>>
       ELSE \E age \in Ages, raised \in BOOLEAN :
              /\ sample' = <<age>>
              /\ record_session' = IF raised THEN record_session
                                   ELSE SessionAddSample(record_session, age)
              /\ hist' = [hist EXCEPT ![sampling_task].refused =
                                          @ \/ ~is_valid(age)]
              /\ db_samples' = IF db_initialized
                               THEN DbAddSample(db_samples, age,
                                                record_session.session_id)
                               ELSE db_samples
              /\ sPc' = IF db_samples' # db_samples THEN "db_add"
                        ELSE "drift_sleep"
    /\ UNCHANGED <<sStatus, sCancel, sExit, wait_attempts, iter,
                   sampling_started, samples_written, db_sessions, coil>>
    /\ LoopFrame

\* periodic loop: the write is answered; a failure is logged
SamplingDbAdd ==
    /\ At("db_add")
    /\ \E ok \in BOOLEAN : DbWritten(ok)
    /\ sPc' = "drift_sleep"
    /\ UNCHANGED <<sStatus, sCancel, sExit, wait_attempts, sample, iter,
                   sampling_started, record_session, db_sessions, coil, hist>>
    /\ LoopFrame

\* periodic loop: the drift-corrected sleep is over; the loop ends when the
\* session was marked started and sampling_time has elapsed
SamplingDriftSleep ==
    /\ At("drift_sleep")
    /\ \E expired \in (IF sampling_started THEN BOOLEAN ELSE {FALSE}) :
         IF expired THEN sPc' = "fin_stop" /\ UNCHANGED iter ELSE LoopHead
    /\ UNCHANGED <<sStatus, sCancel, sExit, wait_attempts, sample,
                   sampling_started, dbVars, coil, hist>>
    /\ LoopFrame

\* periodic loop: the backoff sleep after a failed iteration is over
SamplingBackoff ==
    /\ At("backoff")
    /\ LoopHead
    /\ UNCHANGED <<sStatus, sCancel, sExit, wait_attempts, sample,
                   sampling_started, dbVars, coil, hist>>
    /\ LoopFrame

\* awaits of the periodic loop's try block ("except CancelledError: break")
CaughtPcs == {"read", "db_add", "drift_sleep"}

\* awaits of the outer try block that no handler covers: the first write,
\* and the backoff sleep inside the "except Exception" handler
UncaughtPcs == {"first_db_add", "backoff"}

\* CancelledError in the sampling phase: the finally block runs, and the
\* task then returns True or stays cancelled
SamplingCancelledSampling ==
    /\ Running
    /\ sCancel
    /\ sPc \in CaughtPcs \cup UncaughtPcs
    /\ sPc' = "fin_stop"
    /\ sExit' = IF sPc \in UncaughtPcs THEN "cancel" ELSE sExit
    /\ sCancel' = FALSE
    /\ UNCHANGED <<sStatus, wait_attempts, sample, iter, sampling_started,
                   dbVars, coil, hist>>
    /\ LoopFrame

\* finally: async_stop_sampling(); its exception is logged
SamplingFinallyStop ==
    /\ At("fin_stop")
    /\ hist' = [hist EXCEPT ![sampling_task].stops = @ + 1]
    /\ coil' = IF ProtocolUp THEN FALSE ELSE coil
    /\ sPc' = "fin_end"
    /\ UNCHANGED <<sStatus, sCancel, sExit, wait_attempts, sample, iter,
                   sampling_started, dbVars>>
    /\ LoopFrame

ExitStatus(how) ==
    CASE how = "return" -> "done"
      [] how = "raise" -> "failed"
      [] how = "cancel" -> "cancelled"

\* finally: end_sampling_session(session_id) and record_session.end_session()
\* (an exception is logged), _sampling_started = False, then the coroutine
\* returns True or re-raises what brought it here
SamplingFinallyEnd ==
    /\ At("fin_end")
    /\ \E ok \in DbOutcomes :
         IF ok
         THEN /\ db_sessions' = EndDbSession(record_session.session_id)
              /\ record_session' = [record_session EXCEPT !.session_end = TRUE]
              /\ hist' = [hist EXCEPT ![sampling_task].closed = TRUE]
         ELSE UNCHANGED <<db_sessions, record_session, hist>>
    /\ sampling_started' = FALSE
    /\ Finish(ExitStatus(sExit))
    /\ UNCHANGED <<sPc, sCancel, sExit, wait_attempts, sample, iter,
                   samples_written, db_samples, coil>>
    /\ LoopFrame

\* time passes while the loop holds a sample: the sample gets older
Tick ==
    /\ Running
    /\ sample # NoSample
    /\ AgeOf(sample) < Day
    /\ sample' = <<AgeOf(sample) + 1>>
    /\ UNCHANGED <<sStatus, sPc, sCancel, sExit, wait_attempts, iter,
                   sampling_started, dbVars, coil, hist>>
    /\ LoopFrame

\* ------------------------------------------------------------------------
\* The recorder with an instrument whose async_start_sampling() reports the
\* confirmed start, which lets the loop get past its start attempts
\* ------------------------------------------------------------------------
InitLoop == ExecInit /\ RecInit("Confirming") /\ DriftIdle /\ ConnIdle
    /\ SessionInit

NextLoop ==
    \/ Next
    \/ SamplingStartSucceeded
    \/ SamplingEndPrevious
    \/ SamplingCreateSession
    \/ SamplingReadFlow
    \/ SamplingWaitStatus
    \/ SamplingWaitChannels
    \/ SamplingWaitStartSession
    \/ SamplingWaitSleep
    \/ SamplingCancelledWaiting
    \/ SamplingAbortStop
    \/ SamplingAbortEnd
    \/ SamplingFirstDbAdd
    \/ SamplingRead
    \/ SamplingDbAdd
    \/ SamplingDriftSleep
    \/ SamplingBackoff
    \/ SamplingCancelledSampling
    \/ SamplingFinallyStop
    \/ SamplingFinallyEnd
    \/ Tick

SpecLoop == InitLoop /\ [][NextLoop]_vars

\* ------------------------------------------------------------------------
\* Claims on the sampling loop (checked under SpecLoop)
\* ------------------------------------------------------------------------

\* C9: a sampling task that has ended after the instrument was started has
\* attempted instrument.stop_sampling() and, if it created a session row,
\* has closed that row, whatever made the loop exit.
C9_CleanupOnExit ==
    \A r \in Runs :
        (Ended(sStatus[r]) /\ hist[r].started) =>
            /\ hist[r].stops >= 1
            /\ hist[r].session # 0 => hist[r].closed

\* the sampling task hands the sample it holds to the record session and to
\* the DB handler: the first sample when the wait loop is left, every later
\* one right after it is read
OfferStep ==
    /\ sPc \in {"read", "wait_start_session", "wait_sleep"}
    /\ sPc' # sPc

\* C10: a sample that is invalid (24 hours or more from now) when it is
\* offered changes neither the ring buffer nor the sample counter of the
\* record session, enqueues no persistence write and does not count as
\* written; so every buffered and every enqueued sample was valid when it
\* was added, in the wait for the first sample and in the periodic loop.
C10_InvalidNeverStored ==
    /\ [](/\ \A i \in 1..Len(record_session.live_data) :
               record_session.live_data[i]
          /\ \A i \in 1..Len(db_samples) : db_samples[i].fresh
          /\ samples_written <=
               Cardinality({i \in 1..Len(db_samples) : db_samples[i].written}))
    /\ [][(OfferStep /\ sample' # NoSample /\ ~is_valid(AgeOf(sample')))
          => /\ record_session'.live_data = record_session.live_data
             /\ record_session'.num_of_samples = record_session.num_of_samples
             /\ db_samples' = db_samples
             /\ samples_written' = samples_written]_vars

\* C10 witness: the periodic loop has refused an invalid sample after the
\* first, valid sample was buffered and written
C10_Witness ==
    /\ Running
    /\ hist[sampling_task].refused
    /\ sPc = "drift_sleep"
    /\ ~is_valid(AgeOf(sample))
    /\ record_session.num_of_samples = 1
    /\ Len(db_samples) = 1
    /\ samples_written = 1

\* ------------------------------------------------------------------------
\* The persistence executor (AsyncDBHandler) and the tasks that call it
\* ------------------------------------------------------------------------

DbJobKinds == {"create_sampling_session", "start_sampling_session",
               "add_sample", "end_sampling_session", "get_all_session"}

DbCallers == {"sampling", "host"}

\* AsyncDBHandler.__init__ : an empty queue, no worker, no engine
DbExecInit ==
    /\ queue = << >>
    /\ unfinished = 0
    /\ worker_task = "none"
    /\ workerPc = "off"
    /\ cur = 0
    /\ job = [j \in JobIds |-> NoJob]
    /\ nextJob = 0
    /\ submitted = << >>
    /\ executed = << >>
    /\ inflight = {}
    /\ hPc = "idle"
    /\ connected = FALSE
    /\ handler = "AsyncDBHandler"
    /\ reconnects = {}

\* the id create_sampling_session returned last: the sampling loop passes
\* record_session.session_id to every later call
CurrentSession == Len(db_sessions)

\* the caller awaits the future of an operation it has submitted
Awaiting(owner) ==
    \E j \in JobIds : job[j].owner = owner /\ job[j].future = "pending"

\* the order in which the sampling loop calls the handler: it awaits every
\* call, creates a session, starts it, adds samples to it and ends it before
\* it creates the next one; the host reads the sessions at any time
DbMayCall(kind, owner) ==
    IF owner = "host" THEN kind = "get_all_session"
    ELSE /\ ~Awaiting(owner)
         /\ LET last == db_sessions[CurrentSession]
                open == CurrentSession > 0 /\ ~last.end
            IN CASE kind = "create_sampling_session" -> ~open
                 [] kind = "start_sampling_session" -> open /\ ~last.start
                 [] kind = "add_sample" -> open /\ last.start
                 [] kind = "end_sampling_session" -> open /\ last.start
                 [] OTHER -> FALSE

\* what no step of the persistence executor changes
DbFrame ==
    UNCHANGED <<fsmVars, instrVars, loopVars, taskVars, wdVars,
                record_session, envVars, hostVars, hist, inflight, handler,
                reconnects, unitVars>>

\* start(): connect(), initialize_db(), then the worker task is created;
\* an exception of the first two leaves the handler without a worker.  The
\* recorder starts a handler once, right after constructing it
DbStart ==
    /\ hPc = "idle"
    /\ worker_task = "none"
    /\ \E ok \in BOOLEAN :
         IF ok
         THEN /\ connected' = TRUE
              /\ worker_task' = "alive"
              /\ workerPc' = "get"
              /\ hPc' = "idle"
         ELSE /\ hPc' = "failed"
              /\ UNCHANGED <<connected, worker_task, workerPc>>
    /\ UNCHANGED <<queue, unfinished, cur, job, nextJob, submitted, executed,
                   samples_written, db_sessions, db_samples>>
    /\ DbFrame

\* a public operation up to "return await future": _submit_job raises
\* RuntimeError without a worker, otherwise it puts (coro_func, args, future)
\* into the queue; add_sample is called with a valid sample here
DbSubmitJob(kind, owner) ==
    /\ worker_task # "none"
    /\ nextJob < MaxDbJobs
    /\ DbMayCall(kind, owner)
    /\ LET j == nextJob + 1 IN
         /\ nextJob' = j
         /\ job' = [job EXCEPT ![j] = [kind |-> kind, owner |-> owner,
                                       future |-> "pending"]]
         /\ queue' = Enqueue(queue, j)
         /\ submitted' = Append(submitted, j)
    /\ unfinished' = unfinished + 1
    /\ db_samples' = (IF kind = "add_sample"
                      THEN DbAddSample(db_samples, 0, CurrentSession)
                      ELSE db_samples)
    /\ UNCHANGED <<worker_task, workerPc, cur, executed, hPc, connected,
                   samples_written, db_sessions>>
    /\ DbFrame

\* _worker_loop: item = await queue.get(); None is answered with task_done()
\* and ends the loop, a job is awaited without a timeout
DbWorkerGet ==
    /\ workerPc = "get"
    /\ queue # << >>
    /\ LET item == Head(queue) IN
         /\ queue' = Tail(queue)
         /\ IF item = Sentinel
            THEN /\ unfinished' = unfinished - 1
                 /\ workerPc' = "finished"
                 /\ UNCHANGED <<cur, executed>>
            ELSE /\ cur' = item
                 /\ executed' = Append(executed, item)
                 /\ workerPc' = "exec"
                 /\ UNCHANGED unfinished
    /\ UNCHANGED <<worker_task, job, nextJob, submitted, hPc, connected,
                   samples_written, db_sessions, db_samples>>
    /\ DbFrame

\* what the statement of a job does to the tables when it commits, and what
\* its caller does with the result: add_sample counts a success in
\* _samples_written
DbCommit(kind) ==
    CASE kind = "create_sampling_session" ->
           /\ db_sessions' = Append(db_sessions, NewDbSession)
           /\ UNCHANGED <<db_samples, samples_written>>
      [] kind = "start_sampling_session" ->
           /\ db_sessions' = [db_sessions EXCEPT ![CurrentSession].start = TRUE]
           /\ UNCHANGED <<db_samples, samples_written>>
      [] kind = "end_sampling_session" ->
           /\ db_sessions' = EndDbSession(CurrentSession)
           /\ UNCHANGED <<db_samples, samples_written>>
      [] kind = "add_sample" ->
           /\ DbWritten(TRUE)
           /\ UNCHANGED db_sessions
      [] OTHER -> UNCHANGED <<db_sessions, db_samples, samples_written>>

\* _worker_loop: the coroutine returned (set_result) or raised an Exception
\* (set_exception, logged); finally: queue.task_done(), then the next get
DbWorkerJobDone ==
    /\ workerPc = "exec"
    /\ \E ok \in BOOLEAN :
         IF ok
         THEN /\ job' = Resolve(cur, "result")
              /\ DbCommit(job[cur].kind)
         ELSE /\ job' = Resolve(cur, "exception")
              /\ UNCHANGED <<db_sessions, db_samples, samples_written>>
    /\ unfinished' = unfinished - 1
    /\ cur' = 0
    /\ workerPc' = "get"
    /\ UNCHANGED <<queue, worker_task, nextJob, submitted, executed, hPc,
                   connected>>
    /\ DbFrame

\* stop(): queue.put(None) whether or not a worker runs, then queue.join()
DbStopBegin ==
    /\ hPc = "idle"
    /\ queue' = Enqueue(queue, Sentinel)
    /\ unfinished' = unfinished + 1
    /\ hPc' = "join"
    /\ UNCHANGED <<worker_task, workerPc, cur, job, nextJob, submitted,
                   executed, connected, samples_written, db_sessions,
                   db_samples>>
    /\ DbFrame

\* stop(): queue.join() returned, await self._worker_task
DbStopJoined ==
    /\ hPc = "join"
    /\ unfinished = 0
    /\ hPc' = "await_worker"
    /\ UNCHANGED <<queue, unfinished, worker_task, workerPc, cur, job, nextJob,
                   submitted, executed, connected, samples_written,
                   db_sessions, db_samples>>
    /\ DbFrame

\* stop(): the worker ended; _worker_task = None, engine.dispose(),
\* _is_db_connected = False
DbStopFinish ==
    /\ hPc = "await_worker"
    /\ workerPc = "finished"
    /\ worker_task' = "none"
    /\ workerPc' = "off"
    /\ connected' = FALSE
    /\ hPc' = "stopped"
    /\ UNCHANGED <<queue, unfinished, cur, job, nextJob, submitted, executed,
                   samples_written, db_sessions, db_samples>>
    /\ DbFrame

NextDb ==
    \/ DbStart
    \/ \E k \in DbJobKinds, o \in DbCallers : DbSubmitJob(k, o)
    \/ DbWorkerGet
    \/ DbWorkerJobDone
    \/ DbStopBegin
    \/ DbStopJoined
    \/ DbStopFinish

InitDb == DbExecInit /\ RecInit("PmtApcInstrument") /\ DriftIdle /\ ConnIdle
    /\ SessionInit

SpecDb == InitDb /\ [][NextDb]_vars

\* ------------------------------------------------------------------------
\* Claims on the persistence executor (checked under SpecDb)
\* ------------------------------------------------------------------------

\* the add_sample calls for a session that returned success: the sampling
\* loop adds to a session only between its start and its end
WrittenIn(sid) ==
    Cardinality({i \in 1..Len(db_samples) :
                   db_samples[i].session_id = sid /\ db_samples[i].written})

\* C11: for every session closed by end_sampling_session, the second and
\* later sessions of one handler included, the persisted number_of_samples
\* equals the number of add_sample calls that returned success between
\* that session's start_sampling_session and its end_sampling_session.
C11_SessionCount ==
    \A sid \in 1..Len(db_sessions) :
        db_sessions[sid].end =>
            db_sessions[sid].number_of_samples = WrittenIn(sid)

\* ------------------------------------------------------------------------
\* The deadlines of the periodic loop (_sampling_loop, lines 508-545).
\* One tick is half a second
\* ------------------------------------------------------------------------

\* largest sampling interval (config.sampling_step), in ticks
MaxInterval == 2

\* longest time one iteration spends on its read and its write, in ticks
MaxWork == 4

\* an iteration begins only while the clock is below this value
MaxClock == 8

\* how far behind its deadline the loop can be when it is entered
MaxLag == 1

\* config.sampling_time, in ticks since the first valid sample, which is
\* taken over when the loop is entered at clock 0
SamplingTime == 5

\* the 0.5 seconds of min(interval, 0.5)
HalfSecond == 1

\* the loop is entered after the wait for the first sample, which has
\* advanced next_time once per attempt and has slept only after the
\* attempts that did not find the sample
DriftInit ==
    /\ interval \in 1..MaxInterval
    /\ now = 0
    /\ next_time \in (0 - MaxLag)..interval
    /\ dPc = "top"
    /\ work = 0
    /\ overrun = 0

\* a deadline counted from the clock instead of the previous deadline
Rebase(deadline, clock, step) == clock + step

\* next_time += interval
Advance(deadline, clock, step) == deadline + step

\* how far the clock is past the deadline
Late(clock, deadline) == IF clock > deadline THEN clock - deadline ELSE 0

\* what no step of the periodic loop changes
DriftFrame ==
    UNCHANGED <<workerVars, recVars, connVars, notified, sessVars, opVars,
                tasks, interval>>

\* lines 508-509: the stop event is not set; next_time += interval
LoopTop ==
    /\ dPc = "top"
    /\ now < MaxClock
    /\ next_time' = Advance(next_time, now, interval)
    /\ work' = 0
    /\ dPc' = "work"
    /\ UNCHANGED <<now, overrun>>
    /\ DriftFrame

\* lines 510-525: async_read_channels, from_dict, both add_sample calls
\* (their own exceptions are logged and ignored) took d ticks
IterationWorked(d) ==
    /\ dPc = "work"
    /\ now' = now + d
    /\ work' = d
    /\ dPc' = "drift"
    /\ UNCHANGED <<next_time, overrun>>
    /\ DriftFrame

\* lines 510-512, 541-543: the read or from_dict raised after d ticks
IterationFailed(d) ==
    /\ dPc = "work"
    /\ now' = now + d
    /\ work' = d
    /\ dPc' = "backoff"
    /\ UNCHANGED <<next_time, overrun>>
    /\ DriftFrame

\* time.monotonic() - start_time >= self.config.sampling_time
Expired(clock) == clock >= SamplingTime

\* lines 527-536: delay = next_time - time.monotonic(); asyncio.sleep(delay)
\* when it is positive, otherwise the drift warning and no sleep; then the
\* time limit of the session, which ends the loop
DriftSleep ==
    /\ dPc = "drift"
    /\ now' = (IF next_time - now > 0 THEN now + (next_time - now) ELSE now)
    /\ overrun' = Late(now, next_time)
    /\ dPc' = IF Expired(now') THEN "done" ELSE "top"
    /\ UNCHANGED <<next_time, work>>
    /\ DriftFrame

\* line 545: asyncio.sleep(min(interval, 0.5)) after a failed iteration
Backoff ==
    /\ dPc = "backoff"
    /\ now' = now + Min(interval, HalfSecond)
    /\ overrun' = Late(now', next_time)
    /\ dPc' = "top"
    /\ UNCHANGED <<next_time, work>>
    /\ DriftFrame

NextDrift ==
    \/ LoopTop
    \/ \E d \in 0..MaxWork : IterationWorked(d)
    \/ \E d \in 0..MaxWork : IterationFailed(d)
    \/ DriftSleep
    \/ Backoff

InitDrift ==
    ExecInit /\ RecInit("Confirming") /\ ConnIdle /\ DriftInit /\ SessionInit

SpecDrift == InitDrift /\ [][NextDrift]_vars

\* ------------------------------------------------------------------------
\* Claims on the deadlines (checked under SpecDrift)
\* ------------------------------------------------------------------------

\* C12: the deadline of iteration k+1 is the deadline of iteration k plus
\* exactly one interval, whatever time the iteration in between took and
\* whether it ended in the drift sleep or in an error: the deadline moves
\* only at the top of an iteration, and there by one interval.
C12_DeadlineAdvance ==
    [][IF dPc = "top" /\ dPc' = "work"
       THEN next_time' = next_time + interval
       ELSE next_time' = next_time]_vars

\* C12 witness: an iteration begins after the previous one ended more than
\* one interval past its deadline
C12_Witness ==
    /\ dPc = "work"
    /\ overrun > interval
    /\ next_time < now

\* C13: there is no catch-up burst: when an iteration has ended more than
\* one interval past its deadline, the next iteration, if it takes less
\* than one interval itself, sleeps before the one after it begins.
C13_NoCatchUpBurst ==
    [][(dPc = "drift" /\ overrun > interval /\ work < interval)
       => now' > now]_vars

\* ------------------------------------------------------------------------
\* Claims on the executors: timeouts, failures, shutdown
\* ------------------------------------------------------------------------

\* the worker has started operation j
Started(j) == \E i \in 1..Len(executed) : executed[i] = j

\* C14: an operation the worker is executing is answered even if it never
\* completes: its caller is resolved (with the timeout error when the
\* timeout is what ends it), and the operation queued behind it is then
\* started by the worker.
C14_TimeoutThenNext ==
    \A j \in 1..MaxJobs :
        /\ (cur = j) ~> (cur # j /\ job[j].future # "pending")
        /\ (workerPc = "exec" /\ queue # << >> /\ Head(queue) = j)
               ~> Started(j)

\* C14 witness: an operation ended in the timeout error and the operation
\* submitted after it has been executed and answered with its result
C14_Witness ==
    \E j, k \in 1..MaxJobs :
        /\ j < k
        /\ job[j].future = "timeout"
        /\ Started(k)
        /\ job[k].future = "result"

\* either executor, with the callers and the operations of its class
NextWorkers ==
    \/ handler = "AsyncModbusHandler" /\ NextExec
    \/ handler = "AsyncDBHandler" /\ NextDb

InitWorkers == InitExec \/ InitDb

SpecWorkers == InitWorkers /\ [][NextWorkers]_vars

\* the operation the worker is executing ends in an exception or in the
\* timeout
FailStep ==
    /\ workerPc = "exec"
    /\ workerPc' # "exec"
    /\ job[cur].future = "pending"
    /\ job'[cur].future \in {"exception", "timeout"}

\* C15: when an operation fails in the worker of either executor, the error
\* goes to the future of its own submitter only, the worker stays alive and
\* returns to its queue, and the operations still queued stay queued with
\* their futures untouched, to be executed and resolved on their own.
C15_FailureIsolated ==
    [][FailStep =>
         /\ \A j \in JobIds : j # cur => job'[j] = job[j]
         /\ queue' = queue
         /\ workerPc' = "get"
         /\ worker_task' = "alive"]_vars

\* C15 witness: the persistence worker has answered one operation with its
\* exception and a later one with its result
C15_Witness ==
    /\ handler = "AsyncDBHandler"
    /\ \E j, k \in JobIds :
         /\ j < k
         /\ job[j].future = "exception"
         /\ job[k].future = "result"

\* the operations put into the queue before the None of stop(): at the end
\* of stop() the queue holds only what was put after it
BeforeStop ==
    {submitted[i] : i \in 1..Len(submitted)} \ {queue[i] : i \in 1..Len(queue)}

\* stop() returns
StopReturns == hPc = "await_worker" /\ hPc' # "await_worker"

MaxRetry == 3

\* largest delay argument, in ticks
MaxDelay == 2

\* how one client.connect() fails: it returns False, which connect() turns
\* into ConnectionException("Connect returned False"), or it raises
ConnectErrors == {"Connect returned False", "OSError"}

\* what no step of the connection changes
ConnFrame ==
    UNCHANGED <<queue, unfinished, worker_task, workerPc, cur, job, nextJob,
                submitted, executed, inflight, hPc, handler, reconnects,
                driftVars, notified, sessVars, opVars, tasks, recVars>>

\* the values of range(1, retry + 1)
Attempts(n) == 1..n

\* connect(retry=n, delay=d) up to the retry loop: True at once while
\* is_connected; otherwise the old client is closed, a new one is created
\* and the loop is entered; with an empty range the loop body never runs
\* and the function ends in "return False"
ConnectCall(n, d) ==
    /\ cPc \in {"idle", "done"}
    /\ retry' = n
    /\ delay' = d
    /\ tried' = 0
    /\ waited' = 0
    /\ last_error' = "none"
    /\ IF connected
       THEN /\ returned' = [kind |-> "True", cause |-> "none"]
            /\ attempt' = 0
            /\ cPc' = "done"
       ELSE IF Attempts(n) = {}
            THEN /\ returned' = [kind |-> "False", cause |-> "none"]
                 /\ attempt' = 0
                 /\ cPc' = "done"
            ELSE /\ returned' = [kind |-> "none", cause |-> "none"]
                 /\ attempt' = 1
                 /\ cPc' = "attempt"
    /\ UNCHANGED connected
    /\ ConnFrame

\* one pass of the loop body: ok = await client.connect(); success returns
\* True; a failure in the last attempt raises ConnectionException from the
\* error, an earlier one goes on to asyncio.sleep(delay)
ConnectAttempt ==
    /\ cPc = "attempt"
    /\ tried' = tried + 1
    /\ \/ /\ link
          /\ connected' = TRUE
          /\ returned' = [kind |-> "True", cause |-> "none"]
          /\ cPc' = "done"
          /\ UNCHANGED last_error
       \/ \E e \in ConnectErrors :
            /\ last_error' = e
            /\ IF attempt = retry
               THEN /\ returned' = [kind |-> "ConnectionException",
                                    cause |-> e]
                    /\ cPc' = "done"
               ELSE /\ cPc' = "sleep"
                    /\ UNCHANGED returned
            /\ UNCHANGED connected
    /\ UNCHANGED <<retry, delay, attempt, waited>>
    /\ ConnFrame

\* await asyncio.sleep(delay), then the next value of attempt
ConnectSleep ==
    /\ cPc = "sleep"
    /\ waited' = waited + delay
    /\ attempt' = attempt + 1
    /\ cPc' = "attempt"
    /\ UNCHANGED <<retry, delay, tried, last_error, returned, connected>>
    /\ ConnFrame

\* close(): the client is closed and dropped
ConnectionClose ==
    /\ cPc \in {"idle", "done"}
    /\ connected
    /\ connected' = FALSE
    /\ UNCHANGED connVars
    /\ ConnFrame

NextConnect ==
    \/ \E n \in 0..MaxRetry, d \in 1..MaxDelay : ConnectCall(n, d)
    \/ ConnectAttempt
    \/ ConnectSleep
    \/ ConnectionClose

InitConnect == ExecInit /\ RecInit("PmtApcInstrument") /\ DriftIdle /\ ConnIdle
    /\ SessionInit

SpecConnect == InitConnect /\ [][NextConnect]_vars

\* C17: for every retry count N >= 0 and a peer that cannot be reached,
\* connect(retry=N, delay) makes at most N attempts with the fixed delay
\* between two attempts and ends by raising a connection error that carries
\* the error of the last attempt; it never returns normally while the
\* connection is down.
C17_ConnectRaises ==
    (cPc = "done" /\ ~link) =>
        /\ returned.kind = "ConnectionException"
        /\ returned.cause = last_error
        /\ tried <= retry
        /\ waited = (tried - 1) * delay

\* ------------------------------------------------------------------------
\* Claims on the connection check (checked under SpecExec)
\* ------------------------------------------------------------------------

\* C18: check_connection() never triggers a reconnect: no operation of the
\* kind check_connection calls connection.connect(), so that a check made
\* while the connection is down leaves the connection state as it is.
C18_CheckNeverReconnects ==
    \A j \in reconnects : job[j].kind # "check_connection"

\* ------------------------------------------------------------------------
\* Claims on the state-change callback and on failures of the loops
\* (checked under Spec)
\* ------------------------------------------------------------------------

\* C19: every lifecycle transition invokes the registered state-change
\* callback exactly once with the name of the new state, and nothing else
\* invokes it.
C19_CallbackOnTransition ==
    [][IF state' # state
       THEN notified' = Append(notified, state')
       ELSE notified' = notified]_vars

\* the newest run was started by the host and both of its tasks have ended
\* although the host has called nothing since start_recording() returned
EndedByItself ==
    /\ Returned
    /\ call.op = "start_recording"
    /\ call.spawned > 0
    /\ LoopEnded
    /\ WatchdogEnded

\* C20: a failure inside the loops (the start attempts are used up, or the
\* watchdog finds the system unhealthy and stops the sampling) puts the
\* lifecycle into error and is reported through the callback: a run never
\* ends by itself with the lifecycle still in recording.
C20_FailureBecomesError ==
    EndedByItself =>
        /\ state = "error"
        /\ notified # << >>
        /\ notified[Len(notified)] = "error"

\* ------------------------------------------------------------------------
\* Claims on the instrument's start and stop calls and on the watchdog
\* ------------------------------------------------------------------------

\* the sampling task makes a start attempt whose coil write the device
\* confirms
ConfirmedAttempt ==
    /\ At("start_attempt")
    /\ ProtocolUp
    /\ <<sPc, start_trials, sStatus>>' # <<sPc, start_trials, sStatus>>

\* C21: a start attempt whose coil write is confirmed returns true and sets
\* the cached sampling status to SAMPLING, so that the start-attempt loop is
\* left at that attempt, the first one included, and goes on to the session.
C21_ConfirmedStartProceeds ==
    [][ConfirmedAttempt =>
         /\ sampling_status' = "SAMPLING"
         /\ sPc' \notin {"start_attempt", "start_sleep"}
         /\ Alive(sStatus'[sampling_task])]_vars

\* the awaits of the periodic loop
SamplingPcs == CaughtPcs \cup UncaughtPcs

\* the watchdog is inside manual_stop_sampling(), awaiting run r
WatchdogAwaits(r) == \E w \in Runs : wPc[w] = "stopping" /\ wAwait[w] = r

\* run r ends in this step, with the device unreachable, while the watchdog
\* awaits it: either at the await of the wait loop where the cancel found
\* it, or at the end of the finally block of the periodic loop
EndsByWatchdog(r) ==
    /\ r = sampling_task
    /\ Running
    /\ Ended(sStatus'[r])
    /\ ~link
    /\ WatchdogAwaits(r)
    /\ \/ sCancel /\ sPc \in WaitPcs
       \/ ~sCancel /\ sPc = "fin_end" /\ sampling_started

\* C22: a run that the watchdog ends after connectivity was lost has called
\* instrument.stop_sampling() exactly once when it ends, not zero times and
\* not twice, whether the stop found it waiting for the first valid sample
\* or already sampling.
C22_StopExactlyOnce ==
    [][\A r \in Runs : EndsByWatchdog(r) => hist'[r].stops = 1]_vars

\* C23: with no stop signal, the periodic loop ends once the time since the
\* first valid sample has reached sampling_time, whatever its iterations do:
\* no iteration begins at or after that time, also when the channel read of
\* every iteration fails.
C23_EndsAtSamplingTime ==
    [][(dPc = "top" /\ dPc' = "work") => ~Expired(now)]_vars

\* ------------------------------------------------------------------------
\* Claims on the wait for the first valid sample and on the stop signal
\* ------------------------------------------------------------------------

\* the wait loop gives up in this step: the attempt that found no valid
\* sample was one more than max_wait_attempts
WaitTimedOut ==
    /\ At("wait_status") \/ At("wait_channels")
    /\ ProtocolUp
    /\ wait_attempts > MaxWaitAttempts
    /\ Ended(sStatus'[sampling_task])

HealthyRecording ==
    /\ state = "recording"
    /\ Running
    /\ sPc \in SamplingPcs
    /\ sampling_started
    /\ ProtocolUp
    /\ db_initialized
    /\ coil

\* C27: while recording is active with connectivity up, the device status
\* NORMAL and the instrument reporting SAMPLING as expected, the health
\* check passes and the watchdog that awaited it does not go on to the stop
\* call.
C27_HealthyCheckPasses ==
    /\ [](HealthyRecording =>
            health_check("NORMAL", "SAMPLING", sampling_status,
                         db_check_connection))
    /\ [][\A w \in Runs :
            (HealthyRecording /\ wPc[w] = "health")
                => wPc'[w] # "stopping"]_vars

\* ------------------------------------------------------------------------
\* The watchdog below its health check.  health_check() never returns True
\* with the repository's PmtApcInstrument and AsyncDBHandler (see
\* health_check), so these two steps are in no behaviour of Spec or
\* SpecLoop; SpecWatch adds them for collaborators that keep the cached
\* sampling status and answer the DB check, and leaves out the host's stop
\* calls
\* ------------------------------------------------------------------------

\* lines 590-602: health_check() returned True; the status read follows
\* when _sampling_started is set, otherwise the sleep
WatchdogHealthPassed(w) ==
    /\ wPc[w] = "health"
    /\ ~wCancel[w]
    /\ \E status \in DeviceStatuses, reading \in StatusReadings :
         health_check(status, reading, reading, TRUE)
    /\ wPc' = [wPc EXCEPT ![w] = IF sampling_started THEN "status"
                                  ELSE "sleep"]
    /\ UNCHANGED <<fsmVars, instrVars, loopVars, taskVars, watchdog_task,
                   wCancel, wAwait, dbVars, envVars, hostVars, hist, execVars>>

\* lines 603-615: async_read_sampling_status(); a status other than SAMPLING
\* leads to manual_stop_sampling(), an exception of the read is logged by
\* "except Exception" and the iteration goes on to its sleep
WatchdogStatusRead(w) ==
    /\ wPc[w] = "status"
    /\ ~wCancel[w]
    /\ IF ProtocolUp
       THEN \E reading \in StatusReadings :
              IF reading # "SAMPLING"
              THEN WatchdogStop(w, "stopping")
              ELSE /\ wPc' = [wPc EXCEPT ![w] = "sleep"]
                   /\ UNCHANGED <<async_stop, sStatus, sCancel, wAwait>>
       ELSE /\ wPc' = [wPc EXCEPT ![w] = "sleep"]
            /\ UNCHANGED <<async_stop, sStatus, sCancel, wAwait>>
    /\ UNCHANGED <<fsmVars, instrVars, sPc, sExit, start_trials, wait_attempts,
                   sample, iter, sampling_task, sampling_started,
                   watchdog_task, wCancel, dbVars, envVars, hostVars, hist,
                   execVars>>

NextWatch ==
    \/ InitializeConfig
    \/ InitializeModbus
    \/ InitializeDb
    \/ StartRecording
    \/ SamplingBegin
    \/ SamplingStartSucceeded
    \/ SamplingEndPrevious
    \/ SamplingCreateSession
    \/ SamplingReadFlow
    \/ SamplingWaitStatus
    \/ SamplingWaitChannels
    \/ SamplingWaitStartSession
    \/ SamplingWaitSleep
    \/ SamplingCancelled
    \/ SamplingCancelledWaiting
    \/ SamplingFirstDbAdd
    \/ SamplingRead
    \/ SamplingDbAdd
    \/ SamplingDriftSleep
    \/ SamplingBackoff
    \/ SamplingCancelledSampling
    \/ SamplingFinallyStop
    \/ SamplingFinallyEnd
    \/ \E w \in Runs : WatchdogBegin(w)
    \/ \E w \in Runs : WatchdogTop(w)
    \/ \E w \in Runs : WatchdogHealthFailed(w)
    \/ \E w \in Runs : WatchdogHealthPassed(w)
    \/ \E w \in Runs : WatchdogStatusRead(w)
    \/ \E w \in Runs : WatchdogStopped(w)
    \/ LinkDown
    \/ LinkUp

SpecWatch == InitLoop /\ [][NextWatch]_vars

C28_NoIterationAfterStop ==
    [][(async_stop = "set" /\ sPc' # sPc)
         => sPc' \notin {"wait_status", "read"}]_vars

\* C28 witness: the wait loop found the stop signal set at its head and the
\* task is on its exit path, at the stop call of the abort cleanup
C28_Witness ==
    /\ Running
    /\ async_stop = "set"
    /\ sPc = "abort_stop"
    /\ wait_attempts >= 1

\* ------------------------------------------------------------------------
\* Claims on the session rows and on the record session
\* ------------------------------------------------------------------------

Samples == [is_valid : BOOLEAN, pc : [Channels -> 0..MaxValue]]

\* sample[channel.channel_name]: the count of that channel
ChannelValue(smpl, c) == smpl.pc[c]

\* add_sample(sample): False for an invalid sample; for a valid one every
\* channel's count is appended to its deque and added to its accumulator,
\* num_of_samples grows by one and the call returns True.  When the
\* subscript of the sample raises, it does so at the first channel, before
\* anything was changed
add_sample(rs, smpl, raises) ==
    IF ~smpl.is_valid
    THEN [session |-> rs, result |-> "False"]
    ELSE IF raises
    THEN [session |-> rs, result |-> "TypeError"]
    ELSE [session |->
            [live_data |->
               [c \in Channels |->
                  Ring(Append(rs.live_data[c], ChannelValue(smpl, c)))],
             accumulator |->
               [c \in Channels |->
                  rs.accumulator[c] + ChannelValue(smpl, c)],
             num_of_samples |-> rs.num_of_samples + 1],
          result |-> "True"]

\* one add_sample call on the session
SessionAdd(smpl, raises) ==
    /\ offered.n < MaxCalls
    /\ LET r == add_sample(session, smpl, raises) IN
         /\ session' = r.session
         /\ offered' = [n |-> offered.n + 1, result |-> r.result]
         /\ accepted' = IF r.result = "True" THEN Append(accepted, smpl)
                        ELSE accepted
    /\ UNCHANGED <<workerVars, recVars, driftVars, connVars, notified,
                   opVars, tasks>>

NextSession == \E smpl \in Samples, raises \in BOOLEAN : SessionAdd(smpl, raises)

InitSession ==
    ExecInit /\ RecInit("PmtApcInstrument") /\ DriftIdle /\ ConnIdle
    /\ SessionInit

SpecSession == InitSession /\ [][NextSession]_vars

\* the counts of channel c in the accepted samples, in arrival order
Counts(c) == [i \in 1..Len(accepted) |-> ChannelValue(accepted[i], c)]

\* the last k elements of q
LastOf(q, k) == SubSeq(q, Len(q) - k + 1, Len(q))

RECURSIVE SumOf(_)
SumOf(q) == IF q = << >> THEN 0 ELSE Head(q) + SumOf(Tail(q))

\* C30: after any sequence of add_sample calls each channel's ring buffer
\* holds the last min(n, live_window_len) accepted counts of that channel
\* in arrival order and never more than live_window_len, each accumulator is
\* the sum of the accepted counts of its channel, num_of_samples is the
\* number of calls that returned True, and a call that rejects its sample
\* changes none of them.
C30_RecordSessionInvariants ==
    /\ [](\A c \in Channels :
            /\ session.live_data[c] =
                 LastOf(Counts(c), Min(Len(accepted), LiveWindow))
            /\ Len(session.live_data[c]) <= LiveWindow
            /\ session.accumulator[c] = SumOf(Counts(c)))
    /\ [](session.num_of_samples = Len(accepted))
    /\ [][(offered'.n # offered.n /\ offered'.result # "True")
            => session' = session]_vars

\* C30 witness: more samples were accepted than a buffer holds, with
\* different counts, and the last call rejected its sample
C30_Witness ==
    /\ Len(accepted) > LiveWindow
    /\ offered.result = "False"
    /\ \E c \in Channels : Counts(c)[1] # Counts(c)[Len(accepted)]

\* ------------------------------------------------------------------------
\* The recorder's close_connections() against the protocol executor
\* ------------------------------------------------------------------------

\* the worker is running and an operation is queued or in flight
WorkerBusy ==
    /\ worker_task = "alive"
    /\ \/ inflight # {}
       \/ \E i \in 1..Len(queue) : queue[i] # Sentinel

\* close_connections() up to its first suspension: modbus_connection.close()
\* drops the client and clears the modbus flag, then modbus_handler.stop()
\* returns at once without a worker (the rest of the method then runs to
\* its end) or puts the sentinel and waits in queue.join()
CloseConnectionsBegin ==
    /\ hostPc = "idle"
    /\ hPc = "idle"
    /\ connected' = FALSE
    /\ modbus_initialized' = FALSE
    /\ IF worker_task = "none"
       THEN /\ db_initialized' = FALSE
            /\ instrument_initialized' = FALSE
            /\ UNCHANGED <<queue, unfinished, hPc, hostPc>>
       ELSE /\ queue' = Enqueue(queue, Sentinel)
            /\ unfinished' = unfinished + 1
            /\ hPc' = "join"
            /\ hostPc' = "closing"
            /\ UNCHANGED <<db_initialized, instrument_initialized>>
    /\ UNCHANGED <<worker_task, workerPc, cur, job, nextJob, submitted,
                   executed, inflight, handler, reconnects>>
    /\ UNCHANGED <<state, config_initialized, instrVars, loopVars, taskVars,
                   wdVars, dbVars, envVars, call, hist, unitVars>>

\* close_connections() after modbus_handler.stop() returned: the modbus
\* flag is cleared again, db_handler.stop() ends the persistence worker and
\* the db and instrument flags are cleared
CloseConnectionsFinish ==
    /\ hostPc = "closing"
    /\ hPc = "await_worker"
    /\ workerPc = "finished"
    /\ worker_task' = "none"
    /\ workerPc' = "off"
    /\ connected' = FALSE
    /\ hPc' = "idle"
    /\ modbus_initialized' = FALSE
    /\ db_initialized' = FALSE
    /\ instrument_initialized' = FALSE
    /\ hostPc' = "idle"
    /\ UNCHANGED <<queue, unfinished, cur, job, nextJob, submitted, executed,
                   inflight, handler, reconnects>>
    /\ UNCHANGED <<state, config_initialized, instrVars, loopVars, taskVars,
                   wdVars, dbVars, envVars, call, hist, unitVars>>

\* the executor with its callers and a host that starts it, stops it or
\* closes the recorder's connections
NextClose ==
    \/ HandlerStartBegin
    \/ HandlerStartFinish
    \/ \E k \in JobKinds, o \in Callers : SubmitJob(k, o)
    \/ WorkerGet
    \/ WorkerJobDone
    \/ WorkerJobTimeout
    \/ HandlerStopBegin
    \/ HandlerStopJoined
    \/ hostPc = "idle" /\ HandlerStopFinish
    \/ ConnectionLost
    \/ CloseConnectionsBegin
    \/ CloseConnectionsFinish

SpecClose == InitExec /\ [][NextClose]_vars

\* C31: the protocol connection is closed from outside the worker only when
\* the worker has no operation queued or in flight: close_connections() never
\* closes the connection while the running worker still has work.
C31_ClosedOnlyWhenDrained ==
    [][CloseConnectionsBegin => ~WorkerBusy]_vars

\* ------------------------------------------------------------------------
\* One operation coroutine of AsyncModbusHandler (_check_impl, _*_impl)
\* ------------------------------------------------------------------------

\* number of operation coroutines run in one behaviour of SpecClient
MaxOps == 3

\* what no step of an operation coroutine changes
OpFrame ==
    UNCHANGED <<queue, unfinished, worker_task, workerPc, cur, job, nextJob,
                submitted, executed, inflight, hPc, handler, reconnects,
                driftVars, connVars, notified, sessVars, tasks, recVars>>

\* connect(): "self.client = AsyncModbusTcpClient(...)" precedes the retry
\* loop, so a client object exists whether or not an attempt succeeds
ClientAfterConnect == "object"

\* what an operation does when _get_client() returned None: the read and
\* write implementations raise ModbusException, _check_impl returns False
NoClientOutcome(kind) ==
    IF kind = "check_connection" THEN "False" ELSE "ModbusException"

\* outcomes of the client call on a live connection: a response, or an
\* error response that the implementation turns into ModbusException
LiveOutcomes(kind) ==
    IF kind = "check_connection" THEN {"True", "False"}
    ELSE {"result", "ModbusException"}

\* outcomes of the client call on a connection that is down: the library
\* raises, which _check_impl turns into False
DeadOutcomes(kind) ==
    IF kind = "check_connection" THEN {"False"} ELSE {"exception"}

\* the outcomes that tell the caller the operation failed
ErrorOutcomes == {"False", "ModbusException", "exception"}

\* an operation coroutine up to its client call: client = await
\* _get_client() returns the client while is_connected, otherwise awaits
\* connection.connect() (an exception is logged) and returns
\* connection.client; "if client is None" ends the operation, otherwise the
\* read or write is called on the client
OpBegin(kind) ==
    /\ opPc \in {"idle", "done"}
    /\ ops < MaxOps
    /\ ops' = ops + 1
    /\ \E ok \in BOOLEAN :
         /\ ok => link
         /\ IF connected
            THEN /\ UNCHANGED <<connected, client>>
                 /\ oper' = [kind |-> kind, reconnect |-> "none",
                             issued |-> "live", outcome |-> "none"]
                 /\ opPc' = "io"
            ELSE /\ connected' = ok
                 /\ client' = ClientAfterConnect
                 /\ IF client' = "none"
                    THEN /\ oper' = [kind |-> kind, reconnect |-> "failed",
                                     issued |-> "none",
                                     outcome |-> NoClientOutcome(kind)]
                         /\ opPc' = "done"
                    ELSE /\ oper' = [kind |-> kind,
                                     reconnect |->
                                        IF ok THEN "ok" ELSE "failed",
                                     issued |->
                                        IF ok THEN "live" ELSE "dead",
                                     outcome |-> "none"]
                         /\ opPc' = "io"
    /\ OpFrame

\* the client call returns or raises
OpIo ==
    /\ opPc = "io"
    /\ \E o \in (IF connected /\ link THEN LiveOutcomes(oper.kind)
                 ELSE DeadOutcomes(oper.kind)) :
         oper' = [oper EXCEPT !.outcome = o]
    /\ opPc' = "done"
    /\ UNCHANGED <<connected, client, ops>>
    /\ OpFrame

\* the TCP connection drops: client.connected becomes False
OpConnectionLost ==
    /\ connected
    /\ connected' = FALSE
    /\ UNCHANGED <<client, opPc, oper, ops>>
    /\ OpFrame

\* connection.close(): the client is closed and self.client = None
OpConnectionClose ==
    /\ client = "object"
    /\ client' = "none"
    /\ connected' = FALSE
    /\ UNCHANGED <<opPc, oper, ops>>
    /\ OpFrame

NextClient ==
    \/ \E k \in JobKinds : OpBegin(k)
    \/ OpIo
    \/ OpConnectionLost
    \/ OpConnectionClose
    \/ LinkDown
    \/ LinkUp

SpecClient == InitExec /\ [][NextClient]_vars

\* C32: a read or write is issued to the protocol client only when the
\* connection is live: when the connection is down and the reconnect before
\* the call fails, no client call is made and the operation ends in an error.
C32_NoIoOnDeadConnection ==
    /\ oper.issued # "dead"
    /\ (oper.reconnect = "failed" /\ opPc = "done")
         => oper.outcome \in ErrorOutcomes

\* ------------------------------------------------------------------------
\* Sequences of start() and stop() calls on one executor
\* ------------------------------------------------------------------------

\* number of worker tasks created in one behaviour of SpecLife
MaxTasks == 3

\* what no step of the executor's lifecycle changes
LifeFrame ==
    UNCHANGED <<workerPc, cur, job, submitted, executed, inflight, handler,
                reconnects, driftVars, connVars, notified, sessVars, opVars,
                recVars>>

\* the worker tasks that have not ended
LiveTasks == {w \in 1..Len(tasks) : tasks[w] # "done"}

\* the task self._worker_task refers to: the one created last
\* AsyncModbusHandler.start(): "if self._worker_task is not None and not
\* self._worker_task.done()" with the task on the running loop -> return;
\* AsyncDBHandler.start() has no such test
AlreadyRunning ==
    /\ handler = "AsyncModbusHandler"
    /\ worker_task = "alive"
    /\ tasks[Len(tasks)] # "done"

\* start(): the protocol executor returns when its worker runs; otherwise
\* connect() (and initialize_db()), which may raise, then
\* self._worker_task = asyncio.create_task(...)
LifeStart ==
    /\ hPc = "idle"
    /\ Len(tasks) < MaxTasks
    /\ IF AlreadyRunning
       THEN UNCHANGED <<connected, worker_task, tasks>>
       ELSE \E ok \in BOOLEAN :
              IF ok
              THEN /\ connected' = TRUE
                   /\ worker_task' = "alive"
                   /\ tasks' = Append(tasks, "get")
              ELSE UNCHANGED <<connected, worker_task, tasks>>
    /\ UNCHANGED <<queue, unfinished, nextJob, hPc>>
    /\ LifeFrame

\* _submit_job: RuntimeError without a worker task, otherwise queue.put
LifeSubmit ==
    /\ worker_task = "alive"
    /\ nextJob < MaxJobs
    /\ nextJob' = nextJob + 1
    /\ queue' = Enqueue(queue, nextJob + 1)
    /\ unfinished' = unfinished + 1
    /\ UNCHANGED <<worker_task, hPc, connected, tasks>>
    /\ LifeFrame

\* a worker task takes the next item: None is answered with task_done()
\* and ends the task, a job is executed
LifeWorkerGet(w) ==
    /\ tasks[w] = "get"
    /\ queue # << >>
    /\ queue' = Tail(queue)
    /\ IF Head(queue) = Sentinel
       THEN /\ unfinished' = unfinished - 1
            /\ tasks' = [tasks EXCEPT ![w] = "done"]
       ELSE /\ tasks' = [tasks EXCEPT ![w] = "exec"]
            /\ UNCHANGED unfinished
    /\ UNCHANGED <<worker_task, nextJob, hPc, connected>>
    /\ LifeFrame

\* the job of a worker task ended: its future is resolved, task_done()
LifeWorkerDone(w) ==
    /\ tasks[w] = "exec"
    /\ tasks' = [tasks EXCEPT ![w] = "get"]
    /\ unfinished' = unfinished - 1
    /\ UNCHANGED <<queue, worker_task, nextJob, hPc, connected>>
    /\ LifeFrame

\* stop(): the protocol executor returns without a worker task; otherwise
\* queue.put(None), then queue.join()
LifeStopBegin ==
    /\ hPc = "idle"
    /\ IF handler = "AsyncModbusHandler" /\ worker_task = "none"
       THEN UNCHANGED <<queue, unfinished, hPc>>
       ELSE /\ queue' = Enqueue(queue, Sentinel)
            /\ unfinished' = unfinished + 1
            /\ hPc' = "join"
    /\ UNCHANGED <<worker_task, nextJob, connected, tasks>>
    /\ LifeFrame

\* stop(): queue.join() returned
LifeStopJoined ==
    /\ hPc = "join"
    /\ unfinished = 0
    /\ hPc' = "await_worker"
    /\ UNCHANGED <<queue, unfinished, worker_task, nextJob, connected, tasks>>
    /\ LifeFrame

\* stop(): "if self._worker_task: await self._worker_task;
\* self._worker_task = None", then the connection or the engine is closed
LifeStopFinish ==
    /\ hPc = "await_worker"
    /\ worker_task = "alive" => tasks[Len(tasks)] = "done"
    /\ worker_task' = "none"
    /\ connected' = FALSE
    /\ hPc' = "idle"
    /\ UNCHANGED <<queue, unfinished, nextJob, tasks>>
    /\ LifeFrame

NextLife ==
    \/ LifeStart
    \/ LifeSubmit
    \/ \E w \in 1..Len(tasks) : LifeWorkerGet(w)
    \/ \E w \in 1..Len(tasks) : LifeWorkerDone(w)
    \/ LifeStopBegin
    \/ LifeStopJoined
    \/ LifeStopFinish

SpecLife == InitWorkers /\ [][NextLife]_vars

\* C33: for any sequence of start() and stop() calls on an executor, of
\* either class, at most one worker task consumes the queue at any time.
C33_SingleWorker == Cardinality(LiveTasks) <= 1

\* ------------------------------------------------------------------------
\* The persistence worker and operations that do not complete
\* ------------------------------------------------------------------------

\* the event loop runs the persistence worker whenever it can take an item;
\* _worker_loop starts no timer, and an operation may never complete
SpecDbFair ==
    /\ InitDb
    /\ [][NextDb]_vars
    /\ WF_vars(DbWorkerGet)

\* C34: every operation the persistence worker executes is bounded by a
\* timeout: an operation that never completes still leaves the worker with
\* its caller's future resolved, and the worker goes on with its queue.
C34_DbOperationBounded ==
    \A j \in 1..MaxDbJobs :
        (handler = "AsyncDBHandler" /\ workerPc = "exec" /\ cur = j)
            ~> (cur # j /\ job[j].future # "pending")

\* ------------------------------------------------------------------------
\* Callers of the protocol executor while stop() is in progress
\* ------------------------------------------------------------------------

\* queue.join() is released by the task_done() that brings the counter of
\* unfinished items to zero, and a put that follows does not make it wait
\* again
JoinReleased == hPc = "join" /\ unfinished = 0

\* the executor with the sampling task as its only caller; a submission
\* that follows the release of join() is taken after the step of stop()
\* that the release enables
NextStop ==
    \/ HandlerStartBegin
    \/ HandlerStartFinish
    \/ ~JoinReleased /\ \E k \in JobKinds : SubmitJob(k, "sampling")
    \/ WorkerGet
    \/ WorkerJobDone
    \/ WorkerJobTimeout
    \/ HandlerStopBegin
    \/ HandlerStopJoined
    \/ HandlerStopFinish
    \/ ConnectionLost

\* the event loop runs the worker whenever it can take an item, the timer
\* of wait_for fires unless the operation ends first, and stop() goes on
\* as soon as queue.join() and the worker task let it
SpecStopFair ==
    /\ InitOneCaller
    /\ [][NextStop]_vars
    /\ WF_vars(WorkerGet)
    /\ WF_vars(WorkerJobTimeout)
    /\ WF_vars(HandlerStopJoined)
    /\ WF_vars(HandlerStopFinish)

\* C35: no caller of the executor waits forever: every operation accepted
\* by _submit_job is eventually resolved, also when it was submitted after
\* the sentinel of a stop() in progress, and that stop() eventually returns.
C35_NoCallerWaitsForever ==
    /\ \A j \in 1..MaxJobs :
         (job[j].future = "pending") ~> (job[j].future # "pending")
    /\ (hPc = "join") ~> (hPc = "idle")

\* ------------------------------------------------------------------------
\* Claims on the stop signal, the start attempts, the cleanup and the tasks
\* of the recorder
\* ------------------------------------------------------------------------

\* C36: a stop signal set by stop_recording() is never lost, even when it
\* is set before the sampling task has run its first step: while
\* stop_recording() waits for the task, no step replaces or clears the
\* signal it has set.
C36_StopSignalKept ==
    [][(hostPc = "stop_wait" /\ async_stop = "set")
          => async_stop' = "set"]_vars

\* the sampling task in its start-attempt loop (lines 377-393)
InStartLoop == Running /\ sPc \in {"start_attempt", "start_sleep"}

\* the recorder with an event loop that runs the sampling task whenever it
\* can take a step of its start-attempt loop: the device call returns or
\* raises, the sleep ends, a pending cancellation is delivered
SpecStartFair ==
    /\ Init
    /\ [][Next]_vars
    /\ WF_vars(SamplingStartFailed)
    /\ WF_vars(SamplingStartSleep)
    /\ WF_vars(SamplingCancelled)

LiveSamplingTasks == {r \in Runs : Alive(sStatus[r])}

\* the watchdog tasks that have been created and have not ended
LiveWatchdogs == {r \in Runs : wPc[r] \notin {"unborn", "done"}}

\* C39: at any time at most one sampling task and at most one watchdog task
\* are alive, for any sequence of start_recording, stop_recording and
\* manual_stop_sampling calls and of sampling loops that end by themselves.
C39_OneTaskEach ==
    /\ Cardinality(LiveSamplingTasks) <= 1
    /\ Cardinality(LiveWatchdogs) <= 1

====
